---- MODULE Spec2Model ----
(***************************************************************************)
(* A model of find-object's detection core: the Vocabulary (indexed block, *)
(* staging block, word -> object multimap), the object library of          *)
(* FindObject (ids, nextObjID, descriptor store, dataRange) and            *)
(* FindObject::detect (consistency gate, matching, homography stage).      *)
(***************************************************************************)
EXTENDS Integers, Sequences, FiniteSets, TLC

VARIABLES
    objects,             \* FindObject::objects_ : id -> ObjSignature
    nextObjID,           \* Settings General_nextObjID
    settings,            \* the other Settings keys the core reads
    vocabulary,          \* FindObject::vocabulary_ (a Vocabulary)
    objectsDescriptors,  \* FindObject::objectsDescriptors_ : key -> cv::Mat
    dataRange,           \* FindObject::dataRange_ : last row -> object id
    lastCall,            \* the most recent call: name, arguments, result
    searchLog,           \* Vocabulary::search calls made by the most recent call
    vocTrace,            \* bookkeeping of the most recent Vocabulary::addWords
    builtInverted,       \* the invertedSearch values updateVocabulary last ran
                         \* under: empty before the first call, then one value
    limitCall,           \* a call of limitKeypoints: arguments and result
    hom                  \* the homography stage of a detect call in progress:
                         \* control thread position, candidate list, workers,
                         \* and, as bookkeeping, the candidates joined (trace),
                         \* the candidate each one was requeued from (parent)
                         \* and the order the workers finished in (completed)

vars == <<objects, nextObjID, settings, vocabulary, objectsDescriptors,
          dataRange, lastCall, searchLog, vocTrace, builtInverted, limitCall, hom>>

----------------------------------------------------------------------------
(* Bounds of the model. *)

\* the vocabulary-level specification stops adding words at this size
MaxWords == 4
\* ... and stops adding word -> object entries at this many
MaxEntries == 5
\* object ids, file-name stems and the id counter stay within 1 .. MaxObjID
MaxObjID == 2

----------------------------------------------------------------------------
(* Generic helpers. *)

Min(S) == CHOOSE x \in S : \A y \in S : x <= y

Max(S) == CHOOSE x \in S : \A y \in S : x >= y

Abs(x) == IF x < 0 THEN -x ELSE x

\* (int)sqrt(n) for n >= 0
ISqrt(n) == CHOOSE r \in 0..n : r * r <= n /\ n < (r + 1) * (r + 1)

RECURSIVE SumSeq(_)
SumSeq(s) == IF s = <<>> THEN 0 ELSE Head(s) + SumSeq(Tail(s))

\* v, computed once, handed to F: the value of a local variable of the code
Bind(v, F(_)) == CHOOSE y \in {F(x) : x \in {v}} : TRUE

\* the elements of a finite set of integers, in increasing order
RECURSIVE SortedSeq(_)
SortedSeq(S) == IF S = {} THEN <<>> ELSE <<Min(S)>> \o SortedSeq(S \ {Min(S)})

----------------------------------------------------------------------------
(* QMultiMap<K,V>: a sequence of <<key, value>> pairs sorted by key; among *)
(* equal keys the most recently inserted pair comes first.                 *)

MMEmpty == <<>>

MMInsert(m, k, v) ==
    LET pos == Cardinality({i \in 1..Len(m) : m[i][1] < k})
    IN  SubSeq(m, 1, pos) \o <<<<k, v>>>> \o SubSeq(m, pos + 1, Len(m))

MMCount(m, k) == Cardinality({i \in 1..Len(m) : m[i][1] = k})

MMCountKV(m, k, v) == Cardinality({i \in 1..Len(m) : m[i] = <<k, v>>})

\* QMultiMap::values(key): most recently inserted first
MMValues(m, k) ==
    LET idx == SortedSeq({i \in 1..Len(m) : m[i][1] = k})
    IN  [j \in 1..Len(idx) |-> m[idx[j]][2]]

\* QMultiMap::value(key): the most recently inserted value, 0 when absent
MMValue(m, k) == IF MMCount(m, k) = 0 THEN 0 ELSE MMValues(m, k)[1]

MMKeys(m) == {m[i][1] : i \in 1..Len(m)}

----------------------------------------------------------------------------
(* cv::Mat of descriptors: its rows (one integer per descriptor row, read  *)
(* as a bit pattern for binary descriptors), column count and type.        *)

CV_8U == 0

CV_32F == 5

EmptyMat == [rows |-> <<>>, cols |-> 0, type |-> CV_8U]

Mat(rows, cols, type) == [rows |-> rows, cols |-> cols, type |-> type]

MatEmpty(m) == Len(m.rows) = 0

MatRows(m) == Len(m.rows)

\* cv::Mat::push_back(const Mat&): an empty destination becomes a copy
MatPushBack(m, n) ==
    IF MatEmpty(n) THEN m
    ELSE IF MatEmpty(m) THEN n
    ELSE [m EXCEPT !.rows = m.rows \o n.rows]

----------------------------------------------------------------------------
(* Distances between descriptor rows. *)

Bit(n, i) == (n \div (2 ^ i)) % 2

\* cv::NORM_HAMMING over the 4 bits of a row
Hamming(a, b) ==
    SumSeq([i \in 1..4 |-> IF Bit(a, i - 1) # Bit(b, i - 1) THEN 1 ELSE 0])

\* cv::NORM_HAMMING2: differing 2-bit groups
Hamming2(a, b) ==
    SumSeq([i \in 1..2 |->
        IF (a \div (4 ^ (i - 1))) % 4 # (b \div (4 ^ (i - 1))) % 4 THEN 1 ELSE 0])

NORM_HAMMING == "NORM_HAMMING"

NORM_HAMMING2 == "NORM_HAMMING2"

\* Settings::getFlannDistanceType(): Hamming for binary rows, else L1
FlannDistance(type, a, b) ==
    IF type = CV_8U THEN Hamming(a, b) ELSE Abs(a - b)

\* QString::compare returns 0 for equal strings, and 0 converts to false
NormType(S) ==
    IF (S.descriptorType # "ORB") /\ (S.orbWtaK = 3 \/ S.orbWtaK = 4)
    THEN NORM_HAMMING2 ELSE NORM_HAMMING

\* the distance of the linear scan of the staging block
StagingDistance(S, type, a, b) ==
    IF type = CV_8U
    THEN (IF NormType(S) = NORM_HAMMING2 THEN Hamming2(a, b) ELSE Hamming(a, b))
    ELSE FlannDistance(type, a, b)

\* k nearest rows of `rows` to q: a sequence of <<0-based row, distance>>,
\* nearest first; rows at equal distance come lowest index first when
\* tieLow, highest first otherwise (the libraries do not fix the order)
RECURSIVE KnnPick(_, _, _, _)
KnnPick(dist, cand, k, tieLow) ==
    IF k = 0 \/ cand = {} THEN <<>>
    ELSE LET best == CHOOSE i \in cand : \A j \in cand :
                        \/ dist[i] < dist[j]
                        \/ dist[i] = dist[j] /\ (IF tieLow THEN i <= j ELSE i >= j)
         IN  <<<<best - 1, dist[best]>>>> \o KnnPick(dist, cand \ {best}, k - 1, tieLow)

KnnStaging(S, type, q, rows, k, tieLow) ==
    KnnPick([i \in 1..Len(rows) |-> StagingDistance(S, type, q, rows[i])],
            1..Len(rows), k, tieLow)

KnnFlann(type, q, rows, k, tieLow) ==
    KnnPick([i \in 1..Len(rows) |-> FlannDistance(type, q, rows[i])],
            1..Len(rows), k, tieLow)

----------------------------------------------------------------------------
(* Vocabulary. *)

NewVocabulary ==
    [indexedDescriptors    |-> EmptyMat,
     notIndexedDescriptors |-> EmptyMat,
     notIndexedWordIds     |-> <<>>,
     wordToObjects         |-> MMEmpty,
     flannIndex            |-> <<>>]

\* Vocabulary::size()
VocSize(V) == MatRows(V.indexedDescriptors) + MatRows(V.notIndexedDescriptors)

\* Vocabulary::clear(). The flann index object is left stale; addWords
\* (line 67) and search (line 222) read it only while indexedDescriptors_
\* is non-empty, that is after the next build, so its stale content is
\* never read and the model forgets it
VocClear(V) ==
    [V EXCEPT !.indexedDescriptors = EmptyMat,
              !.notIndexedDescriptors = EmptyMat,
              !.wordToObjects = MMEmpty,
              !.notIndexedWordIds = <<>>,
              !.flannIndex = <<>>]

\* an NNDR test that refuses the nearest candidate at ratio * d2 exactly
NndrMatchStrict(S, fullResults) ==
    /\ Len(fullResults) >= 2
    /\ 10 * fullResults[1][1] < S.nndrRatio * fullResults[2][1]

\* the NNDR test of addWords on the merged candidates; the ratio is
\* S.nndrRatio tenths
NndrMatch(S, fullResults) ==
    /\ Len(fullResults) >= 2
    /\ 10 * fullResults[1][1] <= S.nndrRatio * fullResults[2][1]

\* FullResults without the linear scan of the staging block: only indexed
\* words are candidates
FullResultsIndexOnly(V, S, type, q, globalSearch, tieLow) ==
    LET global == IF globalSearch
                  THEN KnnFlann(type, q, V.flannIndex, 2, tieLow)
                  ELSE <<>>
    IN  [j \in 1..Len(global) |-> <<global[j][2], global[j][1]>>]

\* candidates of row q: the staging block (linear scan) then the index
FullResults(V, S, type, q, globalSearch, tieLow) ==
    LET staged == V.notIndexedDescriptors.rows
        local  == IF Len(staged) > 0
                  THEN KnnStaging(S, type, q, staged,
                                  IF Len(staged) >= 2 THEN 2 ELSE 1, tieLow)
                  ELSE <<>>
        global == IF globalSearch
                  THEN KnnFlann(type, q, V.flannIndex, 2, tieLow)
                  ELSE <<>>
        RECURSIVE Ins(_, _, _)
        Ins(m, res, isLocal) ==
            IF res = <<>> THEN m
            ELSE Ins(MMInsert(m, Head(res)[2],
                              IF isLocal THEN V.notIndexedWordIds[Head(res)[1] + 1]
                              ELSE Head(res)[1]),
                     Tail(res), isLocal)
    IN  Ins(Ins(MMEmpty, local, TRUE), global, FALSE)

\* one pass of the incremental loop of addWords: row i (1-based) of
\* descriptors; acc = [voc, words]
AddWordsIncrementalRow(acc, S, descriptors, i, objectId, globalSearch, tieLow) ==
    LET V  == acc.voc
        q  == descriptors.rows[i]
        fr == FullResults(V, S, descriptors.type, q, globalSearch, tieLow)
    IN  IF NndrMatch(S, fr)
        THEN [voc   |-> [V EXCEPT !.wordToObjects = MMInsert(@, fr[1][2], objectId)],
              words |-> MMInsert(acc.words, fr[1][2], i - 1)]
        ELSE LET w == MatRows(V.indexedDescriptors) + MatRows(V.notIndexedDescriptors)
             IN  [voc   |-> [V EXCEPT
                                !.notIndexedWordIds = Append(@, w),
                                !.notIndexedDescriptors =
                                    MatPushBack(@, Mat(<<q>>, descriptors.cols, descriptors.type)),
                                !.wordToObjects = MMInsert(@, w, objectId)],
                  words |-> MMInsert(acc.words, w, i - 1)]

\* AddWordsBulkRow numbering the rows from 0 whatever the vocabulary holds
AddWordsBulkRowFromZero(acc, V0, i, objectId) ==
    LET w == i - 1
    IN  [voc   |-> [acc.voc EXCEPT !.wordToObjects = MMInsert(@, w, objectId),
                                   !.notIndexedWordIds = Append(@, w)],
         words |-> MMInsert(acc.words, w, i - 1)]

\* AddWordsBulkRow giving every row of the call the id size-before
AddWordsBulkRowSameId(acc, V0, i, objectId) ==
    LET w == MatRows(V0.indexedDescriptors) + MatRows(V0.notIndexedDescriptors)
    IN  [voc   |-> [acc.voc EXCEPT !.wordToObjects = MMInsert(@, w, objectId),
                                   !.notIndexedWordIds = Append(@, w)],
         words |-> MMInsert(acc.words, w, i - 1)]

\* one pass of the non-incremental loop: the staging matrix grows only
\* after the loop, so the id is size-before + i
AddWordsBulkRow(acc, V0, i, objectId) ==
    LET w == MatRows(V0.indexedDescriptors) + MatRows(V0.notIndexedDescriptors) + (i - 1)
    IN  [voc   |-> [acc.voc EXCEPT !.wordToObjects = MMInsert(@, w, objectId),
                                   !.notIndexedWordIds = Append(@, w)],
         words |-> MMInsert(acc.words, w, i - 1)]

\* Vocabulary::addWords: the new vocabulary and the returned word -> row map
AddWords(V, S, descriptors, objectId, incremental, tieLow) ==
    IF MatEmpty(descriptors) THEN [voc |-> V, words |-> MMEmpty]
    ELSE IF incremental
    THEN LET globalSearch == /\ ~MatEmpty(V.indexedDescriptors)
                             /\ MatRows(V.indexedDescriptors) >= 2
             RECURSIVE Loop(_, _)
             Loop(acc, i) ==
                 IF i > MatRows(descriptors) THEN acc
                 ELSE Loop(AddWordsIncrementalRow(acc, S, descriptors, i, objectId,
                                                  globalSearch, tieLow), i + 1)
         IN  Loop([voc |-> V, words |-> MMEmpty], 1)
    ELSE LET RECURSIVE Loop(_, _)
             Loop(acc, i) ==
                 IF i > MatRows(descriptors) THEN acc
                 ELSE Loop(AddWordsBulkRow(acc, V, i, objectId), i + 1)
             r == Loop([voc |-> V, words |-> MMEmpty], 1)
         IN  [r EXCEPT !.voc.notIndexedDescriptors = MatPushBack(@, descriptors)]

\* update() that indexes the staging block in place of the indexed rows
UpdateReplacesIndex(V) ==
    LET flushed == IF ~MatEmpty(V.notIndexedDescriptors)
                   THEN [V EXCEPT
                            !.indexedDescriptors = V.notIndexedDescriptors,
                            !.notIndexedDescriptors = EmptyMat,
                            !.notIndexedWordIds = <<>>]
                   ELSE V
    IN  IF ~MatEmpty(flushed.indexedDescriptors)
        THEN [flushed EXCEPT !.flannIndex = flushed.indexedDescriptors.rows]
        ELSE flushed

\* Vocabulary::update(): flush the staging block, rebuild the index
Update(V) ==
    LET flushed == IF ~MatEmpty(V.notIndexedDescriptors)
                   THEN [V EXCEPT
                            !.indexedDescriptors = MatPushBack(@, V.notIndexedDescriptors),
                            !.notIndexedDescriptors = EmptyMat,
                            !.notIndexedWordIds = <<>>]
                   ELSE V
    IN  IF ~MatEmpty(flushed.indexedDescriptors)
        THEN [flushed EXCEPT !.flannIndex = flushed.indexedDescriptors.rows]
        ELSE flushed

----------------------------------------------------------------------------
(* The object library of FindObject. *)

EmptyMap == [x \in {} |-> 0]

\* QMap::insert: an existing key has its value replaced
MapInsert(m, k, v) == (k :> v) @@ m

MapRemove(m, k) == [x \in (DOMAIN m) \ {k} |-> m[x]]

\* an ObjSignature: the image (as the descriptor rows its features give),
\* the extracted descriptors and the word -> keypoint map
ObjSignature(image, descriptors) ==
    [image |-> image, descriptors |-> descriptors, words |-> MMEmpty]

\* clearVocabulary that empties the stores and leaves the vocabulary
ClearStoresOnly(st) ==
    [st EXCEPT !.objectsDescriptors = EmptyMap,
               !.dataRange = EmptyMap]

\* FindObject::clearVocabulary
ClearVocabulary(st) ==
    [st EXCEPT !.objectsDescriptors = EmptyMap,
               !.dataRange = EmptyMap,
               !.vocabulary = VocClear(@)]

\* the id addObject(ObjSignature*) stores the signature under
AssignedId(id, next) == IF id = 0 THEN next ELSE id

\* the counter after addObject(ObjSignature*) stored under id
NextIdAfter(id, next) == id + 1

\* FindObject::addObject(ObjSignature*): st = the FindObject state,
\* result = the state after and the bool returned
AddObjectSig(st, id, sig) ==
    IF id # 0 /\ id \in DOMAIN st.objects
    THEN [st |-> st, ok |-> FALSE, id |-> id]
    ELSE LET nid == AssignedId(id, st.nextObjID)
         IN  [st |-> ClearVocabulary(
                        [st EXCEPT !.nextObjID = NextIdAfter(nid, st.nextObjID),
                                   !.objects = MapInsert(@, nid, sig)]),
              ok |-> TRUE,
              id |-> nid]

\* IdFromFileName without the contains() test
IdFromFileNameUnchecked(st, stem) ==
    IF stem > 0 THEN stem ELSE 0

\* the id proposed by a file name: its stem when that parses as a positive
\* integer no object uses yet, else 0 (stem 0 stands for a non-numeric stem)
IdFromFileName(st, stem) ==
    IF stem > 0 /\ stem \notin DOMAIN st.objects THEN stem ELSE 0

\* FindObject::addObject(const QString & filePath), image read from the file
AddObjectFile(st, stem, image) ==
    AddObjectSig(st, IdFromFileName(st, stem), ObjSignature(image, EmptyMat))

\* FindObject::addObject(const cv::Mat &, int id, const QString &)
AddObjectImage(st, id, image) ==
    AddObjectSig(st, id, ObjSignature(image, EmptyMat))

\* removeObject that drops the signature and leaves the vocabulary
RemoveObjectOnly(st, id) ==
    IF id \in DOMAIN st.objects
    THEN [st EXCEPT !.objects = MapRemove(@, id)]
    ELSE st

\* FindObject::removeObject
RemoveObjectOp(st, id) ==
    IF id \in DOMAIN st.objects
    THEN ClearVocabulary([st EXCEPT !.objects = MapRemove(@, id)])
    ELSE st

\* FindObject::removeAllObjects
RemoveAllObjectsOp(st) == ClearVocabulary([st EXCEPT !.objects = EmptyMap])

\* column count and type of the rows the configured extractor computes
ExtractorCols(S) == IF S.descriptorType = "SIFT" THEN 128 ELSE 32

ExtractorType(S) == IF S.descriptorType = "SIFT" THEN CV_32F ELSE CV_8U

\* ExtractFeaturesThread::run: detect, then compute (maxFeatures = 0: no cap)
ExtractFeatures(S, image) ==
    IF Len(image) = 0 THEN EmptyMat
    ELSE Mat(image, ExtractorCols(S), ExtractorType(S))

\* FindObject::updateObjects: setData on every object
UpdateObjectsOp(st) ==
    [st EXCEPT !.objects =
        [id \in DOMAIN st.objects |->
            [st.objects[id] EXCEPT
                !.descriptors = ExtractFeatures(st.settings, st.objects[id].image)]]]

\* the verification loop of updateVocabulary: FALSE when it returns early
RECURSIVE DescriptorsConsistent(_, _, _, _)
DescriptorsConsistent(objs, ids, dim, type) ==
    IF ids = <<>> THEN TRUE
    ELSE LET d == objs[Head(ids)].descriptors
         IN  IF MatEmpty(d) THEN DescriptorsConsistent(objs, Tail(ids), dim, type)
             ELSE IF dim >= 0 /\ d.cols # dim THEN FALSE
             ELSE IF type >= 0 /\ d.type # type THEN FALSE
             ELSE DescriptorsConsistent(objs, Tail(ids), d.cols, d.type)

\* the copy loop with dataRange keyed by the row after an object's last
RECURSIVE ConcatDescriptorsKeyAfter(_, _, _)
ConcatDescriptorsKeyAfter(objs, ids, acc) ==
    IF ids = <<>> THEN acc
    ELSE LET d == objs[Head(ids)].descriptors
         IN  IF MatRows(d) > 0
             THEN ConcatDescriptorsKeyAfter(objs, Tail(ids),
                    [mat   |-> [acc.mat EXCEPT !.rows = @ \o d.rows,
                                               !.cols = d.cols, !.type = d.type],
                     row   |-> acc.row + MatRows(d),
                     range |-> MapInsert(acc.range, acc.row + MatRows(d), Head(ids))])
             ELSE ConcatDescriptorsKeyAfter(objs, Tail(ids), acc)

\* the copy loop of updateVocabulary: acc = [mat, range, row]
RECURSIVE ConcatDescriptors(_, _, _)
ConcatDescriptors(objs, ids, acc) ==
    IF ids = <<>> THEN acc
    ELSE LET d == objs[Head(ids)].descriptors
         IN  IF MatRows(d) > 0
             THEN ConcatDescriptors(objs, Tail(ids),
                    [mat   |-> [acc.mat EXCEPT !.rows = @ \o d.rows,
                                               !.cols = d.cols, !.type = d.type],
                     row   |-> acc.row + MatRows(d),
                     range |-> MapInsert(acc.range, acc.row + MatRows(d) - 1, Head(ids))])
             ELSE ConcatDescriptors(objs, Tail(ids), acc)

\* whether the vocabulary loop of updateVocabulary calls update() after an
\* object: addedWords is the running count
UpdateDue(incremental, addedWords, minWords) ==
    incremental /\ addedWords # 0 /\ addedWords >= minWords

\* the condition update() asserts before it flushes a non-empty staging
\* block (Q_ASSERT compiles to nothing in the build)
UpdateCheck(V) ==
    /\ V.indexedDescriptors.cols = V.notIndexedDescriptors.cols
    /\ V.indexedDescriptors.type = V.notIndexedDescriptors.type

\* bookkeeping of one place updateVocabulary may call update() at: after
\* the pass for object `after` (0 for the place after the loop), with the
\* unique words and the newly allocated words of the pass, the counter
\* addedWords as compared there, the rows staged there, whether update()
\* was called and what its check evaluated to
UpdateSite(after, unique, allocated, counter, V, updated) ==
    [after     |-> after,
     unique    |-> unique,
     allocated |-> allocated,
     counter   |-> counter,
     staged    |-> MatRows(V.notIndexedDescriptors),
     updated   |-> updated,
     check     |-> UpdateCheck(V)]

\* the vocabulary loop of updateVocabulary: acc = [st, addedWords, log]
RECURSIVE BuildVocabulary(_, _, _)
BuildVocabulary(acc, ids, tieLow) ==
    IF ids = <<>> THEN acc
    ELSE LET st    == acc.st
             S     == st.settings
             r     == AddWords(st.vocabulary, S, st.objects[Head(ids)].descriptors,
                               Head(ids), S.vocabularyIncremental, tieLow)
             added == acc.addedWords + Cardinality(MMKeys(r.words))
             due   == UpdateDue(S.vocabularyIncremental, added, S.vocabularyUpdateMinWords)
         IN  BuildVocabulary(
                [st |-> [st EXCEPT !.objects[Head(ids)].words = r.words,
                                   !.vocabulary = IF due THEN Update(r.voc) ELSE r.voc],
                 addedWords |-> IF due THEN 0 ELSE added,
                 log |-> Append(acc.log,
                                UpdateSite(Head(ids), Cardinality(MMKeys(r.words)),
                                           VocSize(r.voc) - VocSize(st.vocabulary),
                                           added, r.voc, due))],
                Tail(ids), tieLow)

\* FindObject::updateVocabulary: the state after, and the bookkeeping of
\* the calls of update()
UpdateVocabularyRun(st0, tieLow) ==
    LET st    == ClearVocabulary(st0)
        S     == st.settings
        ids   == SortedSeq(DOMAIN st.objects)
        count == SumSeq([i \in 1..Len(ids) |-> MatRows(st.objects[ids[i]].descriptors)])
    IN  IF ~DescriptorsConsistent(st.objects, ids, -1, -1) THEN [st |-> st, log |-> <<>>]
        ELSE IF count = 0 THEN [st |-> st, log |-> <<>>]
        ELSE IF S.invertedSearch \/ S.threads = 1
        THEN LET c   == ConcatDescriptors(st.objects, ids,
                            [mat |-> EmptyMat, row |-> 0, range |-> EmptyMap])
                 st1 == [st EXCEPT !.objectsDescriptors = (0 :> c.mat),
                                   !.dataRange = c.range]
             IN  IF S.invertedSearch
                 THEN LET b == BuildVocabulary([st |-> st1, addedWords |-> 0, log |-> <<>>],
                                               ids, tieLow)
                          site == UpdateSite(0, 0, 0, b.addedWords, b.st.vocabulary,
                                             b.addedWords # 0)
                      IN  [st  |-> IF b.addedWords # 0
                                   THEN [b.st EXCEPT !.vocabulary = Update(@)]
                                   ELSE b.st,
                           log |-> Append(b.log, site)]
                 ELSE [st |-> st1, log |-> <<>>]
        ELSE [st  |-> [st EXCEPT !.objectsDescriptors =
                          [id \in DOMAIN st.objects |-> st.objects[id].descriptors]],
              log |-> <<>>]

\* the state updateVocabulary leaves
UpdateVocabularyOp(st0, tieLow) == UpdateVocabularyRun(st0, tieLow).st

----------------------------------------------------------------------------
(* FindObject::detect. *)

\* DetectionInfo(): matches per object, accepted transforms (by their
\* translation) and rejected codes per object id, min/max matched distance
NewDetectionInfo ==
    [matches            |-> EmptyMap,
     objDetected        |-> MMEmpty,
     rejectedCodes      |-> MMEmpty,
     minMatchedDistance |-> -1,
     maxMatchedDistance |-> -1]

\* the Q_ASSERT of Vocabulary::search reads these two (Q_ASSERT compiles
\* to nothing in the build: lines 90 and 443 name undeclared variables)
SearchEntry(V) ==
    [notIndexedRows    |-> MatRows(V.notIndexedDescriptors),
     notIndexedWordIds |-> Len(V.notIndexedWordIds)]

\* Vocabulary::search: per query row, k pairs <<word id, distance>>. With
\* an empty indexed block nothing is written and the caller keeps the
\* uninitialised cv::Mat it allocated: every entry is the garbage pair.
\* Neighbours the index does not have come back as -1 at a huge distance.
Search(V, queries, k, tieLow, garbage) ==
    IF MatEmpty(V.indexedDescriptors)
    THEN [i \in 1..MatRows(queries) |-> [j \in 1..k |-> garbage[j]]]
    ELSE [i \in 1..MatRows(queries) |->
            LET nn == KnnFlann(queries.type, queries.rows[i], V.flannIndex, k, tieLow)
            IN  [j \in 1..k |-> IF j <= Len(nn) THEN nn[j] ELSE <<-1, 1000000>>]]

\* the number of neighbours the control thread asks for
SearchK(S) == IF S.nndrRatioUsed THEN 2 ELSE 1

\* the number of neighbours SearchThread::run asks for
ThreadK(S) == IF S.nndrRatioUsed THEN 2 ELSE 1

\* a match decision in which the minimum distance alone accepts a row the
\* NNDR test refused
MatchedByEitherTest(S, nn) ==
    LET d0 == nn[1][2]
        m1 == S.nndrRatioUsed /\ 10 * d0 <= S.nndrRatio * nn[2][2]
        m2 == IF S.minDistanceUsed THEN d0 <= S.minDistance ELSE m1
    IN  IF ~m2 /\ ~S.nndrRatioUsed /\ ~S.minDistanceUsed THEN TRUE ELSE m2

\* the match decision of the control thread on one result row (nn = its k
\* pairs); the second distance is read only when the NNDR test is used
Matched(S, nn) ==
    LET d0 == nn[1][2]
        m1 == S.nndrRatioUsed /\ 10 * d0 <= S.nndrRatio * nn[2][2]
        m2 == IF (m1 \/ ~S.nndrRatioUsed) /\ S.minDistanceUsed
              THEN d0 <= S.minDistance ELSE m1
    IN  IF ~m2 /\ ~S.nndrRatioUsed /\ ~S.minDistanceUsed THEN TRUE ELSE m2

\* the match decision of SearchThread::run on one result row
ThreadMatched(S, nn) ==
    LET d0 == nn[1][2]
        m1 == S.nndrRatioUsed /\ 10 * d0 <= S.nndrRatio * nn[2][2]
        m2 == IF (m1 \/ ~S.nndrRatioUsed) /\ S.minDistanceUsed
              THEN d0 <= S.minDistance ELSE m1
    IN  IF ~m2 /\ ~S.nndrRatioUsed /\ ~S.minDistanceUsed THEN TRUE ELSE m2

\* min/max matched distance updated with d
MinMaxUpdate(info, dmin, dmax) ==
    [info EXCEPT
        !.minMatchedDistance = IF @ = -1 \/ @ > dmin THEN dmin ELSE @,
        !.maxMatchedDistance = IF @ = -1 \/ @ < dmax THEN dmax ELSE @]

\* consistentNNData that looks at the vocabulary size only, not at where
\* its words came from
ConsistentNNDataSizeOnly(V, S) ==
    \/ VocSize(V) # 0 /\ S.invertedSearch
    \/ ~S.invertedSearch

\* FindObject::detect computes this before it compares
ConsistentNNData(V, S) ==
    \/ /\ VocSize(V) # 0
       /\ V.wordToObjects[1][2] # -1
       /\ S.invertedSearch
    \/ /\ VocSize(V) = 0 \/ V.wordToObjects[1][2] = -1
       /\ ~S.invertedSearch

\* the condition of the COMPARE branch; sceneKeypoints = the keypoints
\* the extractor kept, one per descriptor row
Gate(st, scene) ==
    /\ DOMAIN st.objectsDescriptors # {}
    /\ scene.keypoints # 0
    /\ ConsistentNNData(st.vocabulary, st.settings)
    /\ st.objectsDescriptors[Min(DOMAIN st.objectsDescriptors)].cols = scene.descriptors.cols
    /\ st.objectsDescriptors[Min(DOMAIN st.objectsDescriptors)].type = scene.descriptors.type

\* inverted matching that adds a pair for every entry of the word, however
\* many times the object holds it
RECURSIVE InvertedInsertEveryEntry(_, _, _, _, _)
InvertedInsertEveryEntry(acc, st, objIds, wordId, i) ==
    IF objIds = <<>> THEN acc
    ELSE LET o == Head(objIds)
             next ==
                IF o \in DOMAIN st.objects /\ o \in DOMAIN acc.info.matches
                THEN [acc EXCEPT !.info.matches[o] =
                         MMInsert(@, MMValue(st.objects[o].words, wordId), i)]
                ELSE [acc EXCEPT !.fault = @ \cup {"nullObject"}]
         IN  Bind(next, LAMBDA a : InvertedInsertEveryEntry(a, st, Tail(objIds), wordId, i))

\* inverted matching of scene row i (0-based) to word wordId: one pair for
\* every object that holds the word exactly once
RECURSIVE InvertedInsert(_, _, _, _, _)
InvertedInsert(acc, st, objIds, wordId, i) ==
    IF objIds = <<>> THEN acc
    ELSE LET o == Head(objIds)
             next ==
                IF MMCountKV(st.vocabulary.wordToObjects, wordId, o) = 1
                THEN IF o \in DOMAIN st.objects /\ o \in DOMAIN acc.info.matches
                     THEN [acc EXCEPT !.info.matches[o] =
                              MMInsert(@, MMValue(st.objects[o].words, wordId), i)]
                     ELSE [acc EXCEPT !.fault = @ \cup {"nullObject"}]
                ELSE acc
         IN  Bind(next, LAMBDA a : InvertedInsert(a, st, Tail(objIds), wordId, i))

\* non-inverted matching that takes the key before the lower bound for the
\* object's first row
NonInvertedInsertFromKey(acc, st, words, wordId, i, oracle) ==
    LET keys  == {k \in DOMAIN st.dataRange : k >= i}
        below == {k \in DOMAIN st.dataRange : k < i}
    IN  IF keys = {}
        THEN [acc EXCEPT !.fault = @ \cup {"dataRangeEnd"}]
        ELSE LET objectId == st.dataRange[Min(keys)]
                 first    == IF below = {} THEN 0 ELSE Max(below)
             IN  IF MMCount(words, wordId) = 1
                 THEN IF objectId \in DOMAIN acc.info.matches
                      THEN [acc EXCEPT !.info.matches[objectId] =
                               MMInsert(@, i - first, MMValue(words, wordId))]
                      ELSE [acc EXCEPT !.fault = @ \cup {"nullObject"}]
                 ELSE acc

\* non-inverted matching of row i (0-based) of the concatenated matrix
NonInvertedInsert(acc, st, words, wordId, i, oracle) ==
    LET keys  == {k \in DOMAIN st.dataRange : k >= i}
        below == {k \in DOMAIN st.dataRange : k < i}
    IN  IF keys = {}
        THEN \* lowerBound gave end(): the id read is garbage
             IF oracle.gobj \in DOMAIN acc.info.matches /\ MMCount(words, wordId) = 1
             THEN [acc EXCEPT !.fault = @ \cup {"dataRangeEnd"},
                              !.info.matches[oracle.gobj] =
                                  MMInsert(@, i, MMValue(words, wordId))]
             ELSE [acc EXCEPT !.fault = @ \cup {"dataRangeEnd"}]
        ELSE LET objectId == st.dataRange[Min(keys)]
                 first    == IF below = {} THEN 0 ELSE Max(below) + 1
             IN  IF MMCount(words, wordId) = 1
                 THEN IF objectId \in DOMAIN acc.info.matches
                      THEN [acc EXCEPT !.info.matches[objectId] =
                               MMInsert(@, i - first, MMValue(words, wordId))]
                      ELSE [acc EXCEPT !.fault = @ \cup {"nullObject"}]
                 ELSE acc

\* one pass of the PROCESS RESULTS loop: result row i (1-based), nn = its
\* k pairs
ProcessRow(acc, st, words, nn, i, oracle) ==
    LET S      == st.settings
        wordId == nn[1][1]
    IN  Bind([acc EXCEPT !.info = MinMaxUpdate(@, nn[1][2], nn[1][2])],
             LAMBDA a1 :
                IF ~Matched(S, nn) THEN a1
                ELSE IF S.invertedSearch
                THEN InvertedInsert(a1, st,
                         MMValues(st.vocabulary.wordToObjects, wordId), wordId, i - 1)
                ELSE NonInvertedInsert(a1, st, words, wordId, i - 1, oracle))

\* the PROCESS RESULTS loop of the control thread: acc = [info, fault]
RECURSIVE ProcessResults(_, _, _, _, _, _)
ProcessResults(acc, st, words, res, i, oracle) ==
    IF i > Len(res) THEN acc
    ELSE Bind(ProcessRow(acc, st, words, res[i], i, oracle),
              LAMBDA a2 : ProcessResults(a2, st, words, res, i + 1, oracle))

\* the pairs SearchThread::run stores for a matched row i (0-based)
ThreadInsert(matches, sceneWords, wordId, i) ==
    MMInsert(MMInsert(matches, i, MMValue(sceneWords, wordId)), i, wordId)

\* SearchThread::run on one descriptor block: [matches, min, max]
RECURSIVE SearchThreadRun(_, _, _, _, _)
SearchThreadRun(acc, S, sceneWords, res, i) ==
    IF i > Len(res) THEN acc
    ELSE LET nn     == res[i]
             d0     == nn[1][2]
             wordId == nn[1][1]
         IN  Bind([matches |-> IF ThreadMatched(S, nn) /\ MMCount(sceneWords, wordId) = 1
                               THEN ThreadInsert(acc.matches, sceneWords, wordId, i - 1)
                               ELSE acc.matches,
                   min |-> IF acc.min = -1 \/ acc.min > d0 THEN d0 ELSE acc.min,
                   max |-> IF acc.max = -1 \/ acc.max < d0 THEN d0 ELSE acc.max],
                  LAMBDA a : SearchThreadRun(a, S, sceneWords, res, i + 1))

\* the multi-threaded branch: one SearchThread per key of the store,
\* joined and merged in key order; acc = [info, fault, log]
RECURSIVE SearchBatches(_, _, _, _, _, _)
SearchBatches(acc, st, words, keys, k, oracle) ==
    IF keys = <<>> THEN acc
    ELSE Bind(Search(st.vocabulary, st.objectsDescriptors[Head(keys)], k,
                     oracle.tieLow, oracle.garbage),
         LAMBDA res :
         Bind(SearchThreadRun([matches |-> MMEmpty, min |-> -1, max |-> -1],
                              st.settings, words, res, 1),
         LAMBDA t :
         Bind([acc EXCEPT !.info = MinMaxUpdate(
                                      [@ EXCEPT !.matches = MapInsert(@, Head(keys), t.matches)],
                                      t.min, t.max),
                          !.log = Append(@, SearchEntry(st.vocabulary))],
         LAMBDA a : SearchBatches(a, st, words, Tail(keys), k, oracle))))

\* CREATE INDEX for the scene, in non-inverted mode: the vocabulary and the
\* scene's words after it
SceneIndex(st0, scene, oracle) ==
    LET S == st0.settings
    IN  IF ~S.invertedSearch
        THEN Bind(AddWords(VocClear(st0.vocabulary), S, scene.descriptors, -1,
                           S.vocabularyIncremental, oracle.tieLow),
                  LAMBDA added :
                     [voc   |-> IF ~S.vocabularyIncremental
                                THEN Update(added.voc) ELSE added.voc,
                      words |-> added.words])
        ELSE [voc |-> st0.vocabulary, words |-> MMEmpty]

\* the searches of detect on the state st the scene index left, words =
\* the scene's word -> keypoint map; result = [st, info, fault, log]
SearchStage(st, scene, words, oracle) ==
    LET S     == st.settings
        info0 == [NewDetectionInfo EXCEPT
                     !.matches = [id \in DOMAIN st.objects |-> MMEmpty]]
        k     == SearchK(S)
    IN  IF S.invertedSearch \/ S.threads = 1
        THEN LET queries == IF ~S.invertedSearch
                            THEN st.objectsDescriptors[Min(DOMAIN st.objectsDescriptors)]
                            ELSE scene.descriptors
             IN  Bind(Search(st.vocabulary, queries, k, oracle.tieLow, oracle.garbage),
                 LAMBDA res :
                 Bind(ProcessResults([info |-> info0, fault |-> {}], st, words,
                                     res, 1, oracle),
                 LAMBDA r :
                    [st |-> st, info |-> r.info, fault |-> r.fault,
                     log |-> <<SearchEntry(st.vocabulary)>>]))
        ELSE Bind(SearchBatches([info |-> info0, fault |-> {}, log |-> <<>>],
                                st, words, SortedSeq(DOMAIN st.objectsDescriptors),
                                ThreadK(S), oracle),
             LAMBDA r : [st |-> st, info |-> r.info, fault |-> r.fault, log |-> r.log])

\* the matching stage of detect, entered after the gate
MatchingStage(st0, scene, oracle) ==
    Bind(SceneIndex(st0, scene, oracle),
    LAMBDA x :
    Bind([st0 EXCEPT !.vocabulary = x.voc],
    LAMBDA st : SearchStage(st, scene, x.words, oracle)))

\* the translation (m31, m32) of the H findHomography fits to a set of
\* correspondences: the oracle places candidates by their size
Placement(oracle, matches) == oracle.place[(Len(matches) % Len(oracle.place)) + 1]

\* HomographyThread::run on one candidate. findHomography is the oracle:
\* it makes the first oracle.inliers correspondences inliers and returns a
\* non-empty H, all zeros when oracle.zero, else with the translation
\* the oracle places the candidate at
HomographyThreadRun(S, matches, oracle) ==
    IF Len(matches) >= S.minimumInliers
    THEN LET n   == IF oracle.inliers < Len(matches) THEN oracle.inliers ELSE Len(matches)
             all == n = Len(matches)
             ignored == all /\ (S.ignoreWhenAllInliers \/ oracle.zero)
         IN  [inliers  |-> SubSeq(matches, 1, n),
              outliers |-> SubSeq(matches, n + 1, Len(matches)),
              hEmpty   |-> ignored,
              pos      |-> IF oracle.zero THEN <<0, 0>> ELSE Placement(oracle, matches),
              code     |-> IF ignored THEN "AllInliers" ELSE "Undef"]
    ELSE [inliers |-> MMEmpty, outliers |-> MMEmpty, hEmpty |-> TRUE,
          pos |-> <<0, 0>>, code |-> "LowMatches"]

\* the checks with the bounds of the corners tested before the inliers
CodeBoundsBeforeInliers(S, t, oracle) ==
    LET c0 == IF t.hEmpty THEN t.code ELSE "Undef"
        c1 == IF c0 = "Undef" /\ oracle.corner = "far" THEN "NotValid" ELSE c0
        c2 == IF c1 = "Undef" /\ Len(t.inliers) < S.minimumInliers
              THEN "LowInliers" ELSE c1
    IN  IF /\ c2 = "Undef"
           /\ S.minAngle > 0
           /\ oracle.angle < S.minAngle \/ oracle.angle > 180 - S.minAngle
        THEN "ByAngle" ELSE c2

\* the code of a joined candidate after the low-inliers, bounds and angle
\* checks. What the mapped corners give is the oracle's: oracle.corner is
\* "far" when a corner is outside twice the scene, "margin" when one is
\* outside the scene but within twice of it, "inside" when all are in the
\* scene; oracle.angle is the smallest angle between two sides
CodeBeforeMultiDetection(S, t, oracle) ==
    LET c0 == IF t.hEmpty THEN t.code ELSE "Undef"
        c1 == IF c0 = "Undef" /\ Len(t.inliers) < S.minimumInliers
              THEN "LowInliers" ELSE c0
        c2 == IF c1 = "Undef" /\ oracle.corner = "far" THEN "NotValid" ELSE c1
    IN  IF /\ c2 = "Undef"
           /\ S.minAngle > 0
           /\ oracle.angle < S.minAngle \/ oracle.angle > 180 - S.minAngle
        THEN "ByAngle" ELSE c2

\* the distance along x only
TranslationDistanceX(p, q) == Abs(p[1] - q[1])

\* (int)sqrt(dx*dx + dy*dy) between two translations
TranslationDistance(p, q) ==
    ISqrt((p[1] - q[1]) * (p[1] - q[1]) + (p[2] - q[2]) * (p[2] - q[2]))

\* the final code of a joined candidate of object id
CandidateCode(S, info, id, t, oracle) ==
    LET c2   == CodeBeforeMultiDetection(S, t, oracle)
        near == {i \in 1..Len(info.objDetected) :
                    /\ info.objDetected[i][1] = id
                    /\ TranslationDistance(info.objDetected[i][2], t.pos)
                          < S.multiDetectionRadius}
        c3   == IF c2 = "Undef" /\ S.multiDetection /\ near # {}
                THEN "Superposed" ELSE c2
    IN  IF c3 = "Undef" /\ S.allCornersVisible /\ oracle.corner # "inside"
        THEN "CornersOutside" ELSE c3

\* the control thread's handling of a joined candidate of object id: the
\* DetectionInfo after, the code given, and whether the candidate's
\* outliers were pushed on the candidate list
JoinedCandidate(S, info, id, t, oracle) ==
    LET code == CandidateCode(S, info, id, t, oracle)
    IN  [info    |-> IF code = "Undef"
                     THEN [info EXCEPT !.objDetected = MMInsert(@, id, t.pos)]
                     ELSE [info EXCEPT !.rejectedCodes = MMInsert(@, id, code)],
         code    |-> code,
         requeue |-> /\ CodeBeforeMultiDetection(S, t, oracle) = "Undef"
                     /\ S.multiDetection]

\* threadCounts of the homography stage
HomThreadCounts(S, matches) ==
    IF S.threads = 0 THEN Cardinality(DOMAIN matches) ELSE S.threads

\* the join loop of one batch, with every worker finished when it is
\* joined: candidates k .. last - 1 (0-based) of the list; acc = [info,
\* fault, list], list = the candidates <<id, matches>>, which grows
RECURSIVE HomographyBatch(_, _, _, _, _)
HomographyBatch(acc, S, k, last, oracle) ==
    IF k >= last THEN acc
    ELSE LET id == acc.list[k + 1][1]
         IN  Bind(HomographyThreadRun(S, acc.list[k + 1][2], oracle),
             LAMBDA t :
             Bind(JoinedCandidate(S, acc.info, id, t, oracle),
             LAMBDA c :
             Bind([acc EXCEPT !.info = c.info,
                              !.list = IF c.requeue
                                       THEN Append(@, <<id, t.outliers>>) ELSE @],
             LAMBDA a : HomographyBatch(a, S, k + 1, last, oracle))))

\* the homography loop from the batch that starts at candidate i (0-based):
\* a batch is the threadCounts candidates from i on that the list holds
\* when the batch is created
RECURSIVE HomographyStage(_, _, _, _, _)
HomographyStage(acc, st, i, threadCounts, oracle) ==
    IF i >= Len(acc.list) THEN acc
    ELSE LET last == IF i + threadCounts < Len(acc.list)
                     THEN i + threadCounts ELSE Len(acc.list)
         IN  IF \E k \in (i + 1)..last : acc.list[k][1] \notin DOMAIN st.objects
             THEN \* objects_.value(id) is null and is dereferenced
                  [acc EXCEPT !.fault = @ \cup {"nullObject"}]
             ELSE Bind(HomographyBatch(acc, st.settings, i, last, oracle),
                  LAMBDA a :
                     HomographyStage(a, st, i + threadCounts, threadCounts, oracle))

\* the branches after COMPARE that fail whatever the scene is
NotComparedNeverSuccess(st, scene) == FALSE

\* what detect returns for a non-empty image when COMPARE is not entered:
\* success only for a scene without keypoints
NotComparedSuccess(st, scene) ==
    IF DOMAIN st.objectsDescriptors # {} /\ scene.keypoints # 0
    THEN FALSE
    ELSE scene.keypoints = 0

\* bool FindObject::detect(image, info): result = [st, success, info,
\* fault, log]; fault names the undefined behaviour the call ran into
DetectOp(st, scene, oracle) ==
    LET skip == [st |-> st, success |-> FALSE, info |-> NewDetectionInfo,
                 fault |-> {}, log |-> <<>>]
    IN  IF scene.empty THEN skip
        ELSE IF Gate(st, scene)
        THEN Bind(MatchingStage(st, scene, oracle),
             LAMBDA m :
             LET ids == SortedSeq(DOMAIN m.info.matches)
             IN  Bind(IF m.st.settings.homographyComputed
                      THEN HomographyStage(
                               [info |-> m.info, fault |-> m.fault,
                                list |-> [i \in 1..Len(ids) |->
                                             <<ids[i], m.info.matches[ids[i]]>>]],
                               m.st, 0,
                               HomThreadCounts(m.st.settings, m.info.matches), oracle)
                      ELSE [info |-> m.info, fault |-> m.fault],
                 LAMBDA h :
                    [st |-> m.st, success |-> TRUE, info |-> h.info,
                     fault |-> h.fault, log |-> m.log]))
        ELSE [skip EXCEPT !.success = NotComparedSuccess(st, scene)]

----------------------------------------------------------------------------
(* Settings, constructor state. *)

DefaultSettings ==
    [invertedSearch           |-> TRUE,
     vocabularyIncremental    |-> FALSE,
     vocabularyUpdateMinWords |-> 2,
     threads                  |-> 1,
     nndrRatioUsed            |-> TRUE,
     nndrRatio                |-> 8,
     minDistanceUsed          |-> FALSE,
     minDistance              |-> 1,
     descriptorType           |-> "SIFT",
     orbWtaK                  |-> 2,
     homographyComputed       |-> TRUE,
     minimumInliers           |-> 1,
     minAngle                 |-> 0,
     ignoreWhenAllInliers     |-> FALSE,
     multiDetection           |-> FALSE,
     multiDetectionRadius     |-> 30,
     allCornersVisible        |-> FALSE]

Call(op, args, ret) == [op |-> op, args |-> args, ret |-> ret]

NoTrace == [sizeBefore |-> 0, stagedBefore |-> 0, incremental |-> FALSE, readd |-> {}]

\* no limitKeypoints call made
NoLimitCall ==
    [keypoints |-> <<>>, maxKeypoints |-> 0, kept |-> <<>>, indices |-> <<>>,
     returned |-> FALSE]

\* no homography stage in progress
NoHomography ==
    [pc |-> "idle", oracle |-> <<>>, matchesId |-> <<>>, matchesList |-> <<>>,
     parent |-> <<>>, threadCounts |-> 0, i |-> 0, threads |-> <<>>, j |-> 0,
     info |-> NewDetectionInfo, trace |-> <<>>, completed |-> <<>>]

\* FindObject::FindObject
Init ==
    /\ objects = EmptyMap
    /\ nextObjID = 1
    /\ settings = DefaultSettings
    /\ vocabulary = NewVocabulary
    /\ objectsDescriptors = EmptyMap
    /\ dataRange = EmptyMap
    /\ lastCall = Call("new", <<>>, <<>>)
    /\ searchLog = <<>>
    /\ vocTrace = NoTrace
    /\ builtInverted = {}
    /\ limitCall = NoLimitCall
    /\ hom = NoHomography

----------------------------------------------------------------------------
(* FindObject driven through its public operations. *)

\* the FindObject state the operators above work on; an action binds the
\* result of its operation once (\E r \in {...}) and then assigns from it
State ==
    [objects            |-> objects,
     nextObjID          |-> nextObjID,
     settings           |-> settings,
     vocabulary         |-> vocabulary,
     objectsDescriptors |-> objectsDescriptors,
     dataRange          |-> dataRange]

Becomes(st) ==
    /\ objects' = st.objects
    /\ nextObjID' = st.nextObjID
    /\ settings' = st.settings
    /\ vocabulary' = st.vocabulary
    /\ objectsDescriptors' = st.objectsDescriptors
    /\ dataRange' = st.dataRange

\* images, as the descriptor rows their features give
Images == {<<0, 7>>}

\* descriptor matrices of signatures added with their features extracted
LoadedDescriptors == {Mat(<<1, 7>>, 32, CV_8U)}

\* what the model leaves to the libraries: tie order of equal distances,
\* uninitialised result entries, the id read past the end of dataRange,
\* the homography fit and where it maps the object's corners
Oracle(tieLow, garbage, inliers, corner) ==
    [tieLow |-> tieLow, garbage |-> garbage, gobj |-> 1, inliers |-> inliers,
     zero |-> FALSE, corner |-> corner, angle |-> 90, place |-> <<<<0, 0>>>>]

NoImage == [empty |-> TRUE, keypoints |-> 0, descriptors |-> EmptyMat]

NoKeypoints == [empty |-> FALSE, keypoints |-> 0, descriptors |-> EmptyMat]

Scene(rows) ==
    [empty |-> FALSE, keypoints |-> Len(rows), descriptors |-> Mat(rows, 128, CV_32F)]

\* the detect calls of the specification: <<scene, oracle>>
DetectInputs ==
    {<<NoImage, Oracle(TRUE, <<<<0, 0>>, <<0, 0>>>>, 1, "inside")>>,
     <<NoKeypoints, Oracle(TRUE, <<<<0, 0>>, <<0, 0>>>>, 1, "inside")>>,
     <<Scene(<<0>>), Oracle(TRUE, <<<<0, 0>>, <<0, 0>>>>, 1, "inside")>>,
     <<Scene(<<0>>), Oracle(FALSE, <<<<-1, 3>>, <<1, 3>>>>, 0, "inside")>>,
     <<Scene(<<1, 7>>), Oracle(TRUE, <<<<1, 0>>, <<0, 3>>>>, 1, "inside")>>,
     <<Scene(<<1, 7>>), Oracle(FALSE, <<<<0, 0>>, <<0, 0>>>>, 1, "far")>>}

DoAddObjectFile(stem, image) ==
    \E r \in {AddObjectFile(State, stem, image)} :
        /\ r.id <= MaxObjID
        /\ Becomes(r.st)
        /\ lastCall' = Call("addObjectFile", <<stem>>, IF r.ok THEN r.id ELSE 0)
        /\ searchLog' = <<>>
        /\ UNCHANGED <<vocTrace, builtInverted, limitCall, hom>>

DoAddObjectImage(id, image) ==
    \E r \in {AddObjectImage(State, id, image)} :
        /\ r.id <= MaxObjID
        /\ Becomes(r.st)
        /\ lastCall' = Call("addObjectImage", <<id>>, IF r.ok THEN r.id ELSE 0)
        /\ searchLog' = <<>>
        /\ UNCHANGED <<vocTrace, builtInverted, limitCall, hom>>

DoAddObjectSignature(id, descriptors) ==
    \E r \in {AddObjectSig(State, id, ObjSignature(<<>>, descriptors))} :
        /\ r.id <= MaxObjID
        /\ Becomes(r.st)
        /\ lastCall' = Call("addObjectSignature", <<id>>, IF r.ok THEN r.id ELSE 0)
        /\ searchLog' = <<>>
        /\ UNCHANGED <<vocTrace, builtInverted, limitCall, hom>>

DoRemoveObject(id) ==
    /\ \E st \in {RemoveObjectOp(State, id)} : Becomes(st)
    /\ lastCall' = Call("removeObject", <<id>>, <<>>)
    /\ searchLog' = <<>>
    /\ UNCHANGED <<vocTrace, builtInverted, limitCall, hom>>

DoRemoveAllObjects ==
    /\ \E st \in {RemoveAllObjectsOp(State)} : Becomes(st)
    /\ lastCall' = Call("removeAllObjects", <<>>, <<>>)
    /\ searchLog' = <<>>
    /\ UNCHANGED <<vocTrace, builtInverted, limitCall, hom>>

DoUpdateObjects ==
    /\ \E st \in {UpdateObjectsOp(State)} : Becomes(st)
    /\ lastCall' = Call("updateObjects", <<>>, <<>>)
    /\ searchLog' = <<>>
    /\ UNCHANGED <<vocTrace, builtInverted, limitCall, hom>>

DoUpdateVocabulary(tieLow) ==
    /\ \E r \in {UpdateVocabularyRun(State, tieLow)} :
          /\ Becomes(r.st)
          /\ lastCall' = Call("updateVocabulary", <<>>, r.log)
    /\ searchLog' = <<>>
    /\ builtInverted' = {settings.invertedSearch}
    /\ UNCHANGED <<vocTrace, limitCall, hom>>

DoDetect(scene, oracle) ==
    \E r \in {DetectOp(State, scene, oracle)} :
        /\ Becomes(r.st)
        /\ lastCall' = Call("detect", <<scene, oracle>>,
                            [success |-> r.success, info |-> r.info, fault |-> r.fault])
        /\ searchLog' = r.log
        /\ UNCHANGED <<vocTrace, builtInverted, limitCall, hom>>

\* a change of a Settings key between calls
DoSet(key, value) ==
    /\ settings[key] # value
    /\ settings' = [settings EXCEPT ![key] = value]
    /\ lastCall' = Call("set", <<>>, <<>>)
    /\ searchLog' = <<>>
    /\ UNCHANGED <<objects, nextObjID, vocabulary, objectsDescriptors, dataRange,
                   vocTrace, builtInverted, limitCall, hom>>

\* objects loaded from image files or images, features extracted by
\* updateObjects, then vocabulary builds, settings changes and detections
Next ==
    \/ \E stem \in 0..MaxObjID, image \in Images : DoAddObjectFile(stem, image)
    \/ \E id \in 0..MaxObjID, image \in Images : DoAddObjectImage(id, image)
    \/ \E id \in 1..MaxObjID : DoRemoveObject(id)
    \/ DoRemoveAllObjects
    \/ DoUpdateObjects
    \/ \E tieLow \in BOOLEAN : DoUpdateVocabulary(tieLow)
    \/ \E d \in DetectInputs : DoDetect(d[1], d[2])
    \/ \E b \in BOOLEAN : DoSet("invertedSearch", b)
    \/ \E b \in BOOLEAN : DoSet("vocabularyIncremental", b)
    \/ \E n \in {1, 2} : DoSet("threads", n)

Spec == Init /\ [][Next]_vars

\* the library alone: the three addObject entry points, the removals and
\* the feature extraction
LibNext ==
    \/ \E stem \in 0..MaxObjID, image \in Images : DoAddObjectFile(stem, image)
    \/ \E id \in 0..MaxObjID, image \in Images : DoAddObjectImage(id, image)
    \/ \E id \in 0..MaxObjID, d \in LoadedDescriptors : DoAddObjectSignature(id, d)
    \/ \E id \in 1..MaxObjID : DoRemoveObject(id)
    \/ DoRemoveAllObjects
    \/ DoUpdateObjects

LibSpec == Init /\ [][LibNext]_vars

\* vocabulary builds over a library that mixes images and signatures
\* loaded with their descriptors
BuildNext ==
    \/ \E id \in 0..MaxObjID, image \in Images : DoAddObjectImage(id, image)
    \/ \E id \in 0..MaxObjID, d \in LoadedDescriptors : DoAddObjectSignature(id, d)
    \/ \E id \in 1..MaxObjID : DoRemoveObject(id)
    \/ DoUpdateObjects
    \/ \E tieLow \in BOOLEAN : DoUpdateVocabulary(tieLow)
    \/ \E b \in BOOLEAN : DoSet("invertedSearch", b)
    \/ \E b \in BOOLEAN : DoSet("vocabularyIncremental", b)

BuildSpec == Init /\ [][BuildNext]_vars

----------------------------------------------------------------------------
(* The Vocabulary driven directly: clear, addWords and update in any order. *)

\* descriptor rows the specifications draw from
DescValues == {0, 1, 7}

DescRows == {<<a>> : a \in DescValues} \cup {<<a, b>> : a, b \in DescValues}

\* extractor settings of the vocabulary-level specification
VocSettings ==
    {[DefaultSettings EXCEPT !.descriptorType = t[1], !.orbWtaK = t[2]] :
        t \in {<<"SIFT", 2>>, <<"ORB", 2>>}}

VocInit ==
    /\ objects = EmptyMap
    /\ nextObjID = 1
    /\ settings \in VocSettings
    /\ vocabulary = NewVocabulary
    /\ objectsDescriptors = EmptyMap
    /\ dataRange = EmptyMap
    /\ lastCall = Call("new", <<>>, <<>>)
    /\ searchLog = <<>>
    /\ vocTrace = NoTrace
    /\ builtInverted = {}
    /\ limitCall = NoLimitCall
    /\ hom = NoHomography

VocUnchanged == UNCHANGED <<objects, nextObjID, settings, objectsDescriptors,
                            dataRange, searchLog, builtInverted, limitCall, hom>>

VClear ==
    /\ vocabulary' = VocClear(vocabulary)
    /\ lastCall' = Call("clear", <<>>, <<>>)
    /\ vocTrace' = NoTrace
    /\ VocUnchanged

\* the words the latest addWords made new, when it was incremental, each
\* with its descriptor row: the staged words from sizeBefore on
NewWordsOf(V, trace) ==
    IF trace.incremental
    THEN {<<V.notIndexedDescriptors.rows[k], V.notIndexedWordIds[k]>> :
            k \in {j \in 1..Len(V.notIndexedWordIds) :
                      V.notIndexedWordIds[j] >= trace.sizeBefore}}
    ELSE {}

VAddWords(rows, objectId, incremental, tieLow) ==
    LET descriptors == Mat(rows, ExtractorCols(settings), ExtractorType(settings))
        r == AddWords(vocabulary, settings, descriptors, objectId, incremental, tieLow)
    IN  /\ VocSize(vocabulary) + Len(rows) <= MaxWords
        /\ Len(vocabulary.wordToObjects) + Len(rows) <= MaxEntries
        /\ vocabulary' = r.voc
        /\ lastCall' = Call("addWords", <<rows, objectId>>, r.words)
        /\ vocTrace' = [sizeBefore   |-> VocSize(vocabulary),
                        stagedBefore |-> MatRows(vocabulary.notIndexedDescriptors),
                        incremental  |-> incremental,
                        readd |-> IF incremental /\ Len(rows) = 1 /\ lastCall.op = "addWords"
                                  THEN {p[2] : p \in {q \in NewWordsOf(vocabulary, vocTrace) :
                                                        q[1] = rows[1]}}
                                  ELSE {}]
        /\ VocUnchanged

VUpdate ==
    /\ vocabulary' = Update(vocabulary)
    /\ lastCall' = Call("update", <<>>, <<>>)
    /\ vocTrace' = [NoTrace EXCEPT
                        !.sizeBefore = VocSize(vocabulary),
                        !.stagedBefore = MatRows(vocabulary.notIndexedDescriptors)]
    /\ VocUnchanged

VocNext ==
    \/ VClear
    \/ \E rows \in DescRows, objectId \in {1}, incremental \in BOOLEAN,
          tieLow \in BOOLEAN : VAddWords(rows, objectId, incremental, tieLow)
    \/ VUpdate

VocSpec == VocInit /\ [][VocNext]_vars

----------------------------------------------------------------------------
(* Properties of the Vocabulary, checked under VocSpec. *)

\* the descriptor row word w stands for
WordRow(V, w) ==
    IF w < MatRows(V.indexedDescriptors)
    THEN V.indexedDescriptors.rows[w + 1]
    ELSE V.notIndexedDescriptors.rows[w - MatRows(V.indexedDescriptors) + 1]

\* C4: word-ids are dense. With M indexed and M' staged rows the word-ids
\* of wordToObjects are exactly 0 .. M+M'-1, notIndexedWordIds has length
\* M' and its k-th entry (from 0) is M + k.
C4_DenseWordIds ==
    LET M  == MatRows(vocabulary.indexedDescriptors)
        Mp == MatRows(vocabulary.notIndexedDescriptors)
    IN  /\ MMKeys(vocabulary.wordToObjects) = 0..(M + Mp - 1)
        /\ Len(vocabulary.notIndexedWordIds) = Mp
        /\ \A k \in 1..Mp : vocabulary.notIndexedWordIds[k] = M + k - 1

\* C4 witness: indexed and staged words side by side, after a match
C4_Witness ==
    /\ MatRows(vocabulary.indexedDescriptors) >= 1
    /\ MatRows(vocabulary.notIndexedDescriptors) >= 2
    /\ Len(vocabulary.wordToObjects) > VocSize(vocabulary)
    /\ lastCall.op = "addWords"

\* C5: right after update() the staging block and its id list are empty,
\* the indexed block holds the whole vocabulary, and the size is what it
\* was before the call.
C5_UpdateFlushes ==
    [][lastCall'.op = "update" =>
          /\ MatEmpty(vocabulary'.notIndexedDescriptors)
          /\ vocabulary'.notIndexedWordIds = <<>>
          /\ MatRows(vocabulary'.indexedDescriptors) = VocSize(vocabulary')
          /\ VocSize(vocabulary') = VocSize(vocabulary)
          /\ vocabulary'.flannIndex = vocabulary'.indexedDescriptors.rows]_vars

\* C5 witness: an update() that flushed staged rows onto a non-empty index
C5_Witness ==
    /\ lastCall.op = "update"
    /\ vocTrace.stagedBefore > 0
    /\ vocTrace.sizeBefore > vocTrace.stagedBefore

\* C7 as claimed: re-adding, incrementally, the row a previous incremental
\* addWords just made the new word w yields a match to w and does not grow
\* the vocabulary, whatever the vocabulary held.
C7_ReAddMatchesAlways ==
    (lastCall.op = "addWords" /\ vocTrace.readd # {}) =>
        /\ VocSize(vocabulary) = vocTrace.sizeBefore
        /\ \A w \in vocTrace.readd : lastCall.ret = <<<<w, 0>>>>

\* C7 amended: when the NNDR test has two candidates (the staging block
\* held two rows or the index two rows when the row is re-added), the row
\* matches a word with the identical descriptor and the vocabulary does
\* not grow; that word is w unless an identical descriptor was a word too.
C7_ReAddMatchesWithTwoCandidates ==
    (/\ lastCall.op = "addWords"
     /\ vocTrace.readd # {}
     /\ \/ vocTrace.stagedBefore >= 2
        \/ vocTrace.sizeBefore - vocTrace.stagedBefore >= 2) =>
        /\ VocSize(vocabulary) = vocTrace.sizeBefore
        /\ Len(lastCall.ret) = 1
        /\ lastCall.ret[1][2] = 0
        /\ \A w \in vocTrace.readd :
              /\ WordRow(vocabulary, lastCall.ret[1][1]) = WordRow(vocabulary, w)
              /\ \/ lastCall.ret[1][1] = w
                 \/ \E x \in 0..(VocSize(vocabulary) - 1) :
                       x # w /\ WordRow(vocabulary, x) = WordRow(vocabulary, w)

\* C7 witness: a re-added row matched its own word, two candidates at hand
C7_Witness ==
    /\ lastCall.op = "addWords"
    /\ vocTrace.readd # {}
    /\ vocTrace.stagedBefore >= 2
    /\ VocSize(vocabulary) = vocTrace.sizeBefore
    /\ \E w \in vocTrace.readd : lastCall.ret = <<<<w, 0>>>>

\* the distances from row q to the candidates addWords merges for it: the
\* staged words, and the indexed words when the index holds two or more
CandidateDistances(V, S, type, q) ==
    {<<w, IF w < MatRows(V.indexedDescriptors)
          THEN FlannDistance(type, q, WordRow(V, w))
          ELSE StagingDistance(S, type, q, WordRow(V, w))>> :
        w \in {x \in 0..(VocSize(V) - 1) :
                  \/ x >= MatRows(V.indexedDescriptors)
                  \/ MatRows(V.indexedDescriptors) >= 2}}

\* whether a row with these candidate distances passes the NNDR test: two
\* candidates or more, the nearest within ratio times the second nearest
PassesNndr(S, cand) ==
    /\ Cardinality(cand) >= 2
    /\ \E c1 \in cand :
          /\ \A c \in cand : c1[2] <= c[2]
          /\ \A c2 \in cand \ {c1} :
                (\A c \in cand \ {c1} : c2[2] <= c[2]) =>
                    10 * c1[2] <= S.nndrRatio * c2[2]

\* C24: incremental addWords handles each row on its own. A call on one row
\* returns exactly one pair (word, 0) and records (word, objectId) once;
\* the row matches the word of a nearest candidate, and the vocabulary
\* keeps its size, if and only if two candidates or more exist and
\* d1 <= ratio * d2; otherwise one word with id M + (staging size) is
\* appended to the staging block. A call on several rows does what the
\* calls on its rows, one after the other, do.
C24_IncrementalRowByRow ==
    [][(lastCall'.op = "addWords" /\ vocTrace'.incremental) =>
          LET rows == lastCall'.args[1]
              o    == lastCall'.args[2]
              ret  == lastCall'.ret
              type == ExtractorType(settings)
              M    == VocSize(vocabulary)
              cand == CandidateDistances(vocabulary, settings, type, rows[1])
          IN  /\ Len(ret) = Len(rows)
              /\ \A i \in 0..(Len(rows) - 1) :
                    Cardinality({k \in 1..Len(ret) : ret[k][2] = i}) = 1
              /\ Len(vocabulary'.wordToObjects) = Len(vocabulary.wordToObjects) + Len(rows)
              /\ \A k \in 1..Len(ret) :
                    MMCountKV(vocabulary'.wordToObjects, ret[k][1], o) =
                        MMCountKV(vocabulary.wordToObjects, ret[k][1], o)
                        + MMCount(ret, ret[k][1])
              /\ Len(rows) = 1 =>
                    IF PassesNndr(settings, cand)
                    THEN /\ VocSize(vocabulary') = M
                         /\ vocabulary'.notIndexedDescriptors = vocabulary.notIndexedDescriptors
                         /\ \E c \in cand : /\ c[1] = ret[1][1]
                                            /\ \A d \in cand : c[2] <= d[2]
                    ELSE /\ VocSize(vocabulary') = M + 1
                         /\ ret[1][1] = M
                         /\ vocabulary'.notIndexedWordIds =
                                Append(vocabulary.notIndexedWordIds, M)
                         /\ vocabulary'.notIndexedDescriptors.rows =
                                Append(vocabulary.notIndexedDescriptors.rows, rows[1])
              /\ Len(rows) = 2 =>
                    \E tl \in BOOLEAN :
                      LET one == AddWords(vocabulary, settings,
                                          Mat(<<rows[1]>>, ExtractorCols(settings), type),
                                          o, TRUE, tl)
                          two == AddWords(one.voc, settings,
                                          Mat(<<rows[2]>>, ExtractorCols(settings), type),
                                          o, TRUE, tl)
                      IN  /\ vocabulary' = two.voc
                          /\ Len(two.words) = 1
                          /\ ret = MMInsert(one.words, two.words[1][1], 1)]_vars

\* C24 witness: a one-row call whose row had candidates in the index and in
\* the staging block and matched, the nearest being as far as ratio * d2
C24_Witness ==
    /\ lastCall.op = "addWords"
    /\ vocTrace.incremental
    /\ Len(lastCall.args[1]) = 1
    /\ vocTrace.stagedBefore >= 1
    /\ vocTrace.sizeBefore - vocTrace.stagedBefore >= 2
    /\ VocSize(vocabulary) = vocTrace.sizeBefore
    /\ Len(lastCall.ret) = 1
    /\ \E w \in 0..(VocSize(vocabulary) - 1) :
          /\ w # lastCall.ret[1][1]
          /\ WordRow(vocabulary, w) = WordRow(vocabulary, lastCall.ret[1][1])
          /\ WordRow(vocabulary, w) = lastCall.args[1][1]

----------------------------------------------------------------------------
(* Properties of detection, checked under Spec. *)

\* the object ids and the -1 markers wordToObjects holds
WordOwners(V) == {V.wordToObjects[i][2] : i \in 1..Len(V.wordToObjects)}

\* C1 as claimed: every search of a detect call, on the control thread or
\* in a search worker, runs with notIndexedDescriptors and
\* notIndexedWordIds empty, and updateVocabulary in inverted mode ends with
\* the staging block empty.
C1_SearchOnlyWhenFlushed ==
    /\ \A i \in 1..Len(searchLog) :
          /\ searchLog[i].notIndexedRows = 0
          /\ searchLog[i].notIndexedWordIds = 0
    /\ (lastCall.op = "updateVocabulary" /\ settings.invertedSearch) =>
          /\ MatEmpty(vocabulary.notIndexedDescriptors)
          /\ vocabulary.notIndexedWordIds = <<>>

\* C2: in every reachable state the values of wordToObjects are all -1 or
\* all ids of objects of the library, never a mix.
C2_NoMixedModes ==
    \/ WordOwners(vocabulary) \subseteq {-1}
    \/ WordOwners(vocabulary) \subseteq DOMAIN objects

\* C2 witness: a vocabulary built from the library in inverted mode was
\* replaced by scene words in a later non-inverted detect
C2_Witness ==
    /\ lastCall.op = "detect"
    /\ WordOwners(vocabulary) = {-1}
    /\ \E id \in DOMAIN objects : objects[id].words # MMEmpty

\* C3: a detect on a scene with keypoints, when invertedSearch differs
\* from what it was at the last updateVocabulary, returns without success,
\* with no matches, detections or rejections, runs no search and leaves
\* the vocabulary and the descriptor store as they were.
C3_ModeSwitchSkipsMatching ==
    [][(/\ lastCall'.op = "detect"
        /\ builtInverted # {}
        /\ settings.invertedSearch \notin builtInverted
        /\ lastCall'.args[1].keypoints > 0) =>
          /\ ~lastCall'.ret.success
          /\ lastCall'.ret.info = NewDetectionInfo
          /\ searchLog' = <<>>
          /\ vocabulary' = vocabulary
          /\ objectsDescriptors' = objectsDescriptors
          /\ dataRange' = dataRange]_vars

\* C3 witness: such a detect happened on a built library, the vocabulary
\* or the descriptor store still holding what updateVocabulary made
C3_Witness ==
    /\ lastCall.op = "detect"
    /\ builtInverted # {}
    /\ settings.invertedSearch \notin builtInverted
    /\ lastCall.args[1].keypoints > 0
    /\ DOMAIN objectsDescriptors # {}
    /\ ~lastCall.ret.success

----------------------------------------------------------------------------
(* Properties of the vocabulary build, checked under BuildSpec. *)

\* the sorted ids of the library
LibraryIds == SortedSeq(DOMAIN objects)

\* the number of descriptor rows of the library
LibraryRows ==
    SumSeq([i \in 1..Len(LibraryIds) |-> MatRows(objects[LibraryIds[i]].descriptors)])

\* the object whose descriptor row is the w-th (from 0) of the library,
\* objects taken in id order
RECURSIVE RowOwner(_, _)
RowOwner(ids, w) ==
    IF w < MatRows(objects[Head(ids)].descriptors) THEN Head(ids)
    ELSE RowOwner(Tail(ids), w - MatRows(objects[Head(ids)].descriptors))

\* the conclusion of C6: size and owners
BulkVocabularyCoversLibrary ==
    /\ VocSize(vocabulary) = LibraryRows
    /\ \A w \in 0..(LibraryRows - 1) :
          MMValues(vocabulary.wordToObjects, w) = <<RowOwner(LibraryIds, w)>>

\* all descriptor matrices of the library that have rows have the same
\* width and element type
SameShape ==
    \A a, b \in DOMAIN objects :
        (MatRows(objects[a].descriptors) > 0 /\ MatRows(objects[b].descriptors) > 0) =>
            /\ objects[a].descriptors.cols = objects[b].descriptors.cols
            /\ objects[a].descriptors.type = objects[b].descriptors.type

\* C6 as claimed: after updateVocabulary with invertedSearch on and
\* incremental off the vocabulary size is the number of descriptor rows of
\* the library and every word-id maps to exactly the object whose row it
\* is, whatever the library holds.
C6_BulkCoversAnyLibrary ==
    (/\ lastCall.op = "updateVocabulary"
     /\ settings.invertedSearch
     /\ ~settings.vocabularyIncremental) => BulkVocabularyCoversLibrary

\* C6 amended: that holds when the descriptor matrices of the library
\* agree in width and type; when they do not, updateVocabulary gives up
\* and the vocabulary and the descriptor store are left empty.
C6_BulkCoversUniformLibrary ==
    (/\ lastCall.op = "updateVocabulary"
     /\ settings.invertedSearch
     /\ ~settings.vocabularyIncremental) =>
        IF SameShape THEN BulkVocabularyCoversLibrary
        ELSE /\ VocSize(vocabulary) = 0
             /\ vocabulary.wordToObjects = MMEmpty
             /\ DOMAIN objectsDescriptors = {}

\* C6 witness: a bulk inverted build over two objects with descriptors
C6_Witness ==
    /\ lastCall.op = "updateVocabulary"
    /\ settings.invertedSearch
    /\ ~settings.vocabularyIncremental
    /\ SameShape
    /\ Cardinality({id \in DOMAIN objects : MatRows(objects[id].descriptors) > 0}) >= 2
    /\ VocSize(vocabulary) = LibraryRows

----------------------------------------------------------------------------
(* Properties of the library, checked under LibSpec. *)

AddOps == {"addObjectFile", "addObjectImage", "addObjectSignature"}

\* a step that is an addObject call asking for an id the library holds
AddOfPresentId ==
    /\ lastCall'.op \in AddOps
    /\ lastCall'.args[1] > 0
    /\ lastCall'.args[1] \in DOMAIN objects

\* C8 as claimed: every successful addObject grows the library by exactly
\* one object, and an id the library assigned itself is not the id of an
\* object already there.
C8_AddNeverOverwrites ==
    [][(lastCall'.op \in AddOps /\ lastCall'.ret # 0) =>
          /\ Cardinality(DOMAIN objects') = Cardinality(DOMAIN objects) + 1
          /\ (lastCall'.ret # lastCall'.args[1]) => lastCall'.ret \notin DOMAIN objects]_vars

\* C9 as claimed: nextObjID never decreases.
C9_CounterMonotonic == [][nextObjID' >= nextObjID]_vars

----------------------------------------------------------------------------
(* Properties of library mutations and of detect's early exits, checked    *)
(* under Spec.                                                             *)

\* a step that changes the library: a successful addObject, a removeObject
\* of an id the library holds, or removeAllObjects
LibraryMutation ==
    \/ lastCall'.op \in AddOps /\ lastCall'.ret # 0
    \/ lastCall'.op = "removeObject" /\ lastCall'.args[1] \in DOMAIN objects
    \/ lastCall'.op = "removeAllObjects"

\* the ids a library mutation adds or removes
MutatedIds ==
    IF lastCall'.op \in AddOps THEN {lastCall'.ret}
    ELSE IF lastCall'.op = "removeObject" THEN {lastCall'.args[1]}
    ELSE DOMAIN objects

\* the ids a library mutation leaves in place
OtherObjects == DOMAIN objects \ MutatedIds

\* no words, no word -> object entries, nothing staged
VocabularyEmpty(V) ==
    /\ VocSize(V) = 0
    /\ V.wordToObjects = MMEmpty
    /\ MatEmpty(V.notIndexedDescriptors)
    /\ V.notIndexedWordIds = <<>>

\* a detect call that returned without searching and without a result
DetectDidNothing ==
    /\ searchLog' = <<>>
    /\ lastCall'.ret.info = NewDetectionInfo
    /\ lastCall'.ret.fault = {}
    /\ vocabulary' = vocabulary
    /\ objectsDescriptors' = objectsDescriptors
    /\ dataRange' = dataRange
    /\ objects' = objects

----------------------------------------------------------------------------
(* Properties of dataRange, checked under BuildSpec. *)

\* the state is the one updateVocabulary left after it built the single
\* concatenated matrix
ConcatenatedBuilt ==
    /\ lastCall.op = "updateVocabulary"
    /\ settings.invertedSearch \/ settings.threads = 1
    /\ objectsDescriptors # EmptyMap

\* dataRange has a key, its last key is the last row of the concatenated
\* matrix, and object ids grow with the keys
DataRangeShape ==
    /\ dataRange # EmptyMap
    /\ Max(DOMAIN dataRange) = MatRows(objectsDescriptors[0]) - 1
    /\ \A k1, k2 \in DOMAIN dataRange : k1 < k2 => dataRange[k1] < dataRange[k2]

DataRangeIds == {dataRange[k] : k \in DOMAIN dataRange}

\* C17 as claimed: after updateVocabulary built the concatenated matrix,
\* dataRange is strictly increasing, ends at rows - 1 and its values are
\* exactly the ids of the library, objects without descriptors included.
C17_DataRangeCoversLibrary ==
    ConcatenatedBuilt => DataRangeShape /\ DataRangeIds = DOMAIN objects

\* C17 amended: the values of dataRange are exactly the ids of the objects
\* that have at least one descriptor row; an object without descriptors
\* has no entry.
C17_DataRangeCoversDescribedObjects ==
    ConcatenatedBuilt =>
        /\ DataRangeShape
        /\ DataRangeIds = {id \in DOMAIN objects : MatRows(objects[id].descriptors) > 0}

\* C17 witness: a concatenated matrix built from two objects
C17_Witness ==
    /\ ConcatenatedBuilt
    /\ Cardinality(DOMAIN dataRange) >= 2

----------------------------------------------------------------------------
(* limitKeypoints. A keypoint is modelled by its response. *)

\* the specification draws keypoint lists up to this length
MaxKeypoints == 3

\* the key without fabs
ResponseKeySigned(response) == response

\* the key a keypoint is sorted by: fabs(response)
ResponseKey(response) == Abs(response)

\* std::multimap<float, int>::insert: the pair goes after the pairs whose
\* key is not greater
ResponseMapInsert(m, key, i) ==
    LET n == Cardinality({p \in 1..Len(m) : m[p][1] <= key})
    IN  SubSeq(m, 1, n) \o <<<<key, i>>>> \o SubSeq(m, n + 1, Len(m))

\* reponseMap after the first loop, from keypoint i (1-based) on
RECURSIVE ResponseMap(_, _, _)
ResponseMap(m, keypoints, i) ==
    IF i > Len(keypoints) THEN m
    ELSE ResponseMap(ResponseMapInsert(m, ResponseKey(keypoints[i]), i),
                     keypoints, i + 1)

\* limitKeypoints: the keypoints kept and, for each, the index it was
\* copied from (iter->second)
LimitKeypoints(keypoints, maxKeypoints) ==
    IF maxKeypoints > 0 /\ Len(keypoints) > maxKeypoints
    THEN LET m   == ResponseMap(<<>>, keypoints, 1)
             idx == [k \in 1..maxKeypoints |-> m[Len(m) - k + 1][2]]
         IN  [kept    |-> [k \in 1..maxKeypoints |-> keypoints[idx[k]]],
              indices |-> idx]
    ELSE [kept |-> keypoints, indices |-> [k \in 1..Len(keypoints) |-> k]]

\* responses of the keypoints drawn
Responses == {-2, -1, 0, 1, 2}

KeypointLists == UNION {[1..n -> Responses] : n \in 0..MaxKeypoints}

LimitInit ==
    /\ objects = EmptyMap
    /\ nextObjID = 1
    /\ settings = DefaultSettings
    /\ vocabulary = NewVocabulary
    /\ objectsDescriptors = EmptyMap
    /\ dataRange = EmptyMap
    /\ lastCall = Call("new", <<>>, <<>>)
    /\ searchLog = <<>>
    /\ vocTrace = NoTrace
    /\ builtInverted = {}
    /\ hom = NoHomography
    /\ limitCall \in {[NoLimitCall EXCEPT !.keypoints = kps, !.maxKeypoints = n] :
                        kps \in KeypointLists, n \in -1..(MaxKeypoints + 1)}

DoLimitKeypoints ==
    /\ ~limitCall.returned
    /\ \E r \in {LimitKeypoints(limitCall.keypoints, limitCall.maxKeypoints)} :
          limitCall' = [limitCall EXCEPT !.kept = r.kept, !.indices = r.indices,
                                         !.returned = TRUE]
    /\ UNCHANGED <<objects, nextObjID, settings, vocabulary, objectsDescriptors,
                   dataRange, lastCall, searchLog, vocTrace, builtInverted, hom>>

LimitNext == DoLimitKeypoints

LimitSpec == LimitInit /\ [][LimitNext]_vars

\* C18: limitKeypoints(kps, N) with N > 0 returns min(N, |kps|) keypoints,
\* each copied from an input position used once, and no dropped keypoint
\* has a greater |response| than a kept one; with N <= 0 or |kps| <= N the
\* result is the input in its order.
C18_LimitKeepsStrongest ==
    limitCall.returned =>
        LET kps  == limitCall.keypoints
            N    == limitCall.maxKeypoints
            kept == limitCall.kept
            idx  == limitCall.indices
            used == {idx[k] : k \in 1..Len(idx)}
        IN  /\ N > 0 =>
                /\ Len(kept) = IF N < Len(kps) THEN N ELSE Len(kps)
                /\ Len(idx) = Len(kept)
                /\ used \subseteq 1..Len(kps)
                /\ Cardinality(used) = Len(idx)
                /\ \A k \in 1..Len(kept) : kept[k] = kps[idx[k]]
                /\ \A k \in used, d \in (1..Len(kps)) \ used :
                      Abs(kps[k]) >= Abs(kps[d])
            /\ (N <= 0 \/ Len(kps) <= N) => kept = kps

\* C18 witness: keypoints were dropped, and one of negative response kept
C18_Witness ==
    /\ limitCall.returned
    /\ limitCall.maxKeypoints > 0
    /\ Len(limitCall.keypoints) > limitCall.maxKeypoints
    /\ \E k \in 1..Len(limitCall.kept) : limitCall.kept[k] < 0

\* C31: when limitKeypoints drops keypoints, a kept keypoint has a lower
\* original index than every dropped keypoint of the same |response|, and
\* kept keypoints of the same |response| appear in the result in increasing
\* original index.
C31_TiesKeepLowerIndexStably ==
    (/\ limitCall.returned
     /\ limitCall.maxKeypoints > 0
     /\ Len(limitCall.keypoints) > limitCall.maxKeypoints) =>
        LET kps  == limitCall.keypoints
            idx  == limitCall.indices
            used == {idx[k] : k \in 1..Len(idx)}
        IN  /\ \A k \in used, d \in (1..Len(kps)) \ used :
                  Abs(kps[k]) = Abs(kps[d]) => k < d
            /\ \A a, b \in 1..Len(idx) :
                  (a < b /\ Abs(kps[idx[a]]) = Abs(kps[idx[b]])) =>
                      idx[a] < idx[b]

\* what the reverse iteration over reponseMap does with equal keys: the
\* keypoint of the higher original index is copied first, and is the one
\* kept at the cut-off
TiesKeepHigherIndexFirst ==
    (/\ limitCall.returned
     /\ limitCall.maxKeypoints > 0
     /\ Len(limitCall.keypoints) > limitCall.maxKeypoints) =>
        LET kps  == limitCall.keypoints
            idx  == limitCall.indices
            used == {idx[k] : k \in 1..Len(idx)}
        IN  /\ \A k \in used, d \in (1..Len(kps)) \ used :
                  Abs(kps[k]) = Abs(kps[d]) => k > d
            /\ \A a, b \in 1..Len(idx) :
                  (a < b /\ Abs(kps[idx[a]]) = Abs(kps[idx[b]])) =>
                      idx[a] > idx[b]

----------------------------------------------------------------------------
(* The homography stage of detect, thread by thread: the control thread    *)
(* starts a batch of HomographyThreads, joins them in order and handles    *)
(* each result between two joins, while the other workers of the batch run.*)

\* candidates hold at most this many correspondences
MaxMatches == 3

\* a match map of n correspondences <<object keypoint, scene keypoint>>
MatchesOfSize(n) == [k \in 1..n |-> <<k, k>>]

\* the library the stage runs on
HomLibrary == [id \in {1, 2} |-> ObjSignature(<<>>, EmptyMat)]

\* <<multiDetection, multiDetectionRadius, threads>> of the settings drawn:
\* single detection on one or two threads, multi-detection on one, two or
\* as many threads as objects, with a radius at and above the distance of
\* the two placements
HomDetectionModes ==
    {<<FALSE, 5, th>> : th \in {1, 2}} \cup
    {<<TRUE, r, th>> : r \in {5, 6}, th \in {0, 1, 2}}

\* <<allCornersVisible, minAngle>> of the settings drawn
HomGeometryChecks == {<<FALSE, 0>>, <<TRUE, 0>>, <<TRUE, 20>>}

\* the settings the stage reads, as set before the detect call
HomSettings ==
    {[DefaultSettings EXCEPT !.multiDetection = m[1], !.multiDetectionRadius = m[2],
                             !.threads = m[3],
                             !.minimumInliers = mi, !.ignoreWhenAllInliers = ig,
                             !.allCornersVisible = g[1], !.minAngle = g[2]] :
        m \in HomDetectionModes, g \in HomGeometryChecks, mi \in {1, 2},
        ig \in BOOLEAN}

\* what findHomography and the corner mapping give during one detect call:
\* n leading inliers; corners inside the scene, in its margin or far off;
\* an all-zero H in place of a fit
HomOracles ==
    {[Oracle(TRUE, <<>>, f[1], f[2]) EXCEPT !.zero = f[3], !.angle = 10,
                                            !.place = <<<<0, 0>>, <<3, 5>>>>] :
        f \in ((0..(MaxMatches - 1)) \X {"inside", "margin", "far"} \X {FALSE})
               \cup ((0..(MaxMatches - 1)) \X {"inside"} \X {TRUE})}

\* info.matches_ as the matching stage left it: a match map per object
HomMatches ==
    {[id \in DOMAIN HomLibrary |-> MatchesOfSize(sz[id])] :
        sz \in {f \in [DOMAIN HomLibrary -> 0..MaxMatches] : f[2] \in {0, MaxMatches}}}

HomInit ==
    /\ objects = HomLibrary
    /\ nextObjID = 3
    /\ settings \in HomSettings
    /\ vocabulary = NewVocabulary
    /\ objectsDescriptors = EmptyMap
    /\ dataRange = EmptyMap
    /\ lastCall = Call("new", <<>>, <<>>)
    /\ searchLog = <<>>
    /\ vocTrace = NoTrace
    /\ builtInverted = {}
    /\ limitCall = NoLimitCall
    /\ hom = NoHomography

HomUnchanged ==
    UNCHANGED <<objects, nextObjID, settings, vocabulary, objectsDescriptors,
                dataRange, lastCall, searchLog, vocTrace, builtInverted, limitCall>>

\* the first index of the batch after the one that started at i
NextBatch(i, threadCounts) == i + threadCounts

\* the correspondences a worker reads whatever the list holds last
WorkerMatchesLast(h, w) == h.matchesList[Len(h.matchesList)]

\* the correspondences worker w (1-based in the batch) reads through its
\* matches_ pointer: element k of the candidate list. QList keeps every
\* QMultiMap in a node of its own, so the element stays where it is when
\* the list grows
WorkerMatches(h, w) == h.matchesList[h.threads[w].k + 1]

\* detect enters the homography stage with info.matches_ = matches: the
\* candidate list is its keys and values, and the first batch begins
HomBegin(matches, oracle) ==
    /\ hom.pc \in {"idle", "done"}
    /\ settings.homographyComputed
    /\ LET ids == SortedSeq(DOMAIN matches)
       IN  hom' = [pc           |-> "start",
                   oracle       |-> oracle,
                   matchesId    |-> ids,
                   matchesList  |-> [n \in 1..Len(ids) |-> matches[ids[n]]],
                   parent       |-> [n \in 1..Len(ids) |-> 0],
                   threadCounts |-> HomThreadCounts(settings, matches),
                   i            |-> 0,
                   threads      |-> <<>>,
                   j            |-> 0,
                   info         |-> [NewDetectionInfo EXCEPT !.matches = matches],
                   trace        |-> <<>>,
                   completed    |-> <<>>]
    /\ HomUnchanged

\* one pass of the loop that creates and starts the workers of a batch, or
\* its exit to the join loop
HomStartThread ==
    /\ hom.pc = "start"
    /\ LET k == hom.i + Len(hom.threads)
       IN  IF k < hom.i + hom.threadCounts /\ k < Len(hom.matchesList)
           THEN hom' = [hom EXCEPT !.threads =
                           Append(@, [k |-> k, objectId |-> hom.matchesId[k + 1],
                                      running |-> TRUE, result |-> <<>>])]
           ELSE hom' = [hom EXCEPT !.pc = "join", !.j = 0]
    /\ HomUnchanged

\* HomographyThread::run of worker w, from start to finish
HomWorkerRun(w) ==
    /\ hom.pc \in {"start", "join"}
    /\ w \in 1..Len(hom.threads)
    /\ hom.threads[w].running
    /\ hom' = [hom EXCEPT !.threads[w].running = FALSE,
                          !.threads[w].result =
                              HomographyThreadRun(settings, WorkerMatches(hom, w),
                                                  hom.oracle),
                          !.completed = Append(@, hom.threads[w].k)]
    /\ HomUnchanged

\* one pass of the join loop: wait() for worker j returns, then its result
\* is handled
HomJoin ==
    /\ hom.pc = "join"
    /\ hom.j < Len(hom.threads)
    /\ ~hom.threads[hom.j + 1].running
    /\ LET th == hom.threads[hom.j + 1]
           t  == th.result
       IN  \E c \in {JoinedCandidate(settings, hom.info, th.objectId, t, hom.oracle)} :
              hom' = [hom EXCEPT
                  !.j = @ + 1,
                  !.info = c.info,
                  !.matchesList = IF c.requeue THEN Append(@, t.outliers) ELSE @,
                  !.matchesId = IF c.requeue THEN Append(@, th.objectId) ELSE @,
                  !.parent = IF c.requeue THEN Append(@, th.k + 1) ELSE @,
                  !.trace = Append(@, [k        |-> th.k,
                                       id       |-> th.objectId,
                                       matches  |-> Len(hom.matchesList[th.k + 1]),
                                       inliers  |-> Len(t.inliers),
                                       pos      |-> t.pos,
                                       code     |-> c.code,
                                       requeued |-> c.requeue])]
    /\ HomUnchanged

\* the end of the join loop: the next batch, or the end of the stage
HomEndBatch ==
    /\ hom.pc = "join"
    /\ hom.j = Len(hom.threads)
    /\ LET i == NextBatch(hom.i, hom.threadCounts)
       IN  hom' = [hom EXCEPT !.i = i, !.threads = <<>>, !.j = 0,
                              !.pc = IF i < Len(hom.matchesList) THEN "start"
                                     ELSE "done"]
    /\ HomUnchanged

HomNext ==
    \/ \E matches \in HomMatches, oracle \in HomOracles : HomBegin(matches, oracle)
    \/ HomStartThread
    \/ \E w \in 1..2 : HomWorkerRun(w)
    \/ HomJoin
    \/ HomEndBatch

HomSpec == HomInit /\ [][HomNext]_vars

----------------------------------------------------------------------------
(* Properties of the homography stage, checked under HomSpec. *)

\* the workers of the current batch that have not finished
RunningWorkers == {w \in 1..Len(hom.threads) : hom.threads[w].running}

\* C12 as claimed: inside a batch the candidate list, whose elements the
\* running workers read, is appended to only when every worker of the
\* batch has finished.
C12_NoAppendWhileWorkersRun ==
    [][(/\ hom.pc = "join"
        /\ Len(hom'.matchesList) > Len(hom.matchesList)) =>
          RunningWorkers = {}]_vars

\* what the stage gives when, batch by batch, every worker has finished
\* before the first one is joined
SequentialReduction ==
    LET ids == SortedSeq(DOMAIN hom.info.matches)
    IN  HomographyStage(
            [info  |-> [NewDetectionInfo EXCEPT !.matches = hom.info.matches],
             fault |-> {},
             list  |-> [n \in 1..Len(ids) |-> <<ids[n], hom.info.matches[ids[n]]>>]],
            State, 0, HomThreadCounts(settings, hom.info.matches), hom.oracle)

\* C13: whatever order the workers finish in, the stage ends with the
\* DetectionInfo of the sequential reduction (match maps, accepted
\* detections, rejected codes, and the order of the entries of one id),
\* the candidates are joined in list order, and the candidates the
\* matching stage gave are joined in the order of the library's ids.
C13_ReductionDeterministic ==
    hom.pc = "done" =>
        LET ids == SortedSeq(DOMAIN objects)
        IN  /\ hom.info = SequentialReduction.info
            /\ \A a, b \in 1..Len(hom.trace) : a < b => hom.trace[a].k < hom.trace[b].k
            /\ \A n \in 1..Len(ids) : hom.trace[n].id = ids[n]

\* C13 witness: a stage ended in which a worker finished before a worker
\* started earlier, and two candidates were accepted
C13_Witness ==
    /\ hom.pc = "done"
    /\ \E a, b \in 1..Len(hom.completed) : a < b /\ hom.completed[a] > hom.completed[b]
    /\ Len(hom.info.objDetected) >= 2

\* the candidates of the list that were joined, as list positions
JoinedPositions == {hom.trace[n].k + 1 : n \in 1..Len(hom.trace)}

\* C14 as claimed, at the end of a stage run with multi-detection and
\* minimumInliers >= 1: every candidate put on the list, at the start or
\* by a requeue, was joined exactly once; a requeued candidate has fewer
\* correspondences than the one it came from; every joined candidate is in
\* exactly one of the accepted and the rejected lists, never with code
\* Undef.
C14_EveryCandidateJoinedOnce ==
    (/\ hom.pc = "done"
     /\ settings.multiDetection
     /\ settings.minimumInliers >= 1) =>
        /\ JoinedPositions = 1..Len(hom.matchesList)
        /\ Len(hom.trace) = Len(hom.matchesList)
        /\ \A n \in 1..Len(hom.parent) :
              hom.parent[n] # 0 =>
                 Len(hom.matchesList[n]) < Len(hom.matchesList[hom.parent[n]])
        /\ Len(hom.info.objDetected) + Len(hom.info.rejectedCodes) = Len(hom.trace)
        /\ \A n \in 1..Len(hom.info.rejectedCodes) :
              hom.info.rejectedCodes[n][2] # "Undef"

\* an accepted detection of the same object, joined before candidate n of
\* the trace, whose translation is nearer than multiDetectionRadius
NearEarlierDetection(n) ==
    \E m \in 1..(n - 1) :
        /\ hom.trace[m].id = hom.trace[n].id
        /\ hom.trace[m].code = "Undef"
        /\ settings.multiDetectionRadius > 0
        /\ LET dx == hom.trace[m].pos[1] - hom.trace[n].pos[1]
               dy == hom.trace[m].pos[2] - hom.trace[n].pos[2]
           IN  dx * dx + dy * dy <
                  settings.multiDetectionRadius * settings.multiDetectionRadius

\* the first check candidate n of the trace fails, in the order LowMatches,
\* AllInliers, LowInliers, NotValid, ByAngle, Superposed, CornersOutside;
\* Undef when it fails none
FirstFailedCheck(n) ==
    LET e == hom.trace[n]
        S == settings
        o == hom.oracle
    IN  IF e.matches < S.minimumInliers THEN "LowMatches"
        ELSE IF e.inliers = e.matches /\ (S.ignoreWhenAllInliers \/ o.zero)
        THEN "AllInliers"
        ELSE IF e.inliers < S.minimumInliers THEN "LowInliers"
        ELSE IF o.corner = "far" THEN "NotValid"
        ELSE IF S.minAngle > 0 /\ (o.angle < S.minAngle \/ o.angle > 180 - S.minAngle)
        THEN "ByAngle"
        ELSE IF S.multiDetection /\ NearEarlierDetection(n) THEN "Superposed"
        ELSE IF S.allCornersVisible /\ o.corner # "inside" THEN "CornersOutside"
        ELSE "Undef"

\* the entries of a multimap under key id
EntriesOf(m, id) == Cardinality({n \in 1..Len(m) : m[n][1] = id})

\* the joined candidates of object id that were given code
JoinedWith(id, codes) ==
    Cardinality({n \in 1..Len(hom.trace) :
                    hom.trace[n].id = id /\ hom.trace[n].code \in codes})

AllCodes ==
    {"LowMatches", "AllInliers", "LowInliers", "NotValid", "ByAngle", "Superposed",
     "CornersOutside"}

\* C15: every joined candidate gets the code of the first check it fails,
\* and it is recorded as accepted exactly when it fails none and as
\* rejected, with that code, otherwise; a candidate with fewer
\* correspondences than minimumInliers is LowMatches with nothing fitted.
C15_FirstFailedCheckDecides ==
    /\ \A n \in 1..Len(hom.trace) :
          /\ hom.trace[n].code = FirstFailedCheck(n)
          /\ hom.trace[n].matches < settings.minimumInliers =>
                hom.trace[n].code = "LowMatches" /\ hom.trace[n].inliers = 0
    /\ \A id \in DOMAIN hom.info.matches :
          /\ EntriesOf(hom.info.objDetected, id) = JoinedWith(id, {"Undef"})
          /\ EntriesOf(hom.info.rejectedCodes, id) = JoinedWith(id, AllCodes)
          /\ \A c \in AllCodes :
                Cardinality({n \in 1..Len(hom.info.rejectedCodes) :
                                hom.info.rejectedCodes[n] = <<id, c>>})
                   = JoinedWith(id, {c})

\* C15 witness: a candidate failed the inliers check and the bounds check
\* and was rejected as LowInliers, and one was accepted
C15_Witness ==
    /\ hom.oracle # <<>>
    /\ hom.oracle.corner = "far"
    /\ \E n \in 1..Len(hom.trace) : hom.trace[n].code = "LowInliers"
    /\ \E n \in 1..Len(hom.trace) : hom.trace[n].code = "LowMatches"

\* C16: with multi-detection, a candidate that passed the bounds and angle
\* checks is Superposed exactly when a detection of its object accepted
\* earlier in the call lies nearer than multiDetectionRadius; the first
\* candidate of an object is never Superposed.
C16_SuperposedIffNearEarlier ==
    settings.multiDetection =>
        \A n \in 1..Len(hom.trace) :
            /\ hom.trace[n].code \in {"Superposed", "CornersOutside", "Undef"} =>
                  (hom.trace[n].code = "Superposed" <=> NearEarlierDetection(n))
            /\ (\A m \in 1..(n - 1) : hom.trace[m].id # hom.trace[n].id) =>
                  hom.trace[n].code # "Superposed"

\* C16 witness: two candidates of one object further apart than the radius
\* were both accepted, and a third, nearer to one of them, was Superposed
C16_Witness ==
    /\ settings.multiDetection
    /\ \E a, b, c \in 1..Len(hom.trace) :
          /\ a < b /\ b < c
          /\ hom.trace[a].id = hom.trace[b].id /\ hom.trace[b].id = hom.trace[c].id
          /\ hom.trace[a].code = "Undef"
          /\ hom.trace[b].code = "Undef"
          /\ hom.trace[c].code = "Superposed"

\* C20 as claimed: with multi-detection, the outliers of a candidate
\* rejected as Superposed are not put on the candidate list.
C20_SuperposedNotRequeued ==
    \A n \in 1..Len(hom.trace) :
        hom.trace[n].code = "Superposed" => ~hom.trace[n].requeued

----------------------------------------------------------------------------
(* The match decision alone: one result row under every combination of the *)
(* two tests.                                                              *)

\* the settings of the two tests: ratio in tenths, minimum distance
DecisionSettings ==
    {[DefaultSettings EXCEPT !.nndrRatioUsed = u[1], !.minDistanceUsed = u[2],
                             !.nndrRatio = u[3], !.minDistance = u[4]] :
        u \in BOOLEAN \X BOOLEAN \X {5, 8, 10} \X {0, 1, 2}}

\* the distances of a result row: k of them, nearest first
ResultRows(k) ==
    IF k = 2
    THEN {<<<<0, d0>>, <<1, d1>>>> : d0 \in 0..3, d1 \in 0..3}
    ELSE {<<<<0, d0>>>> : d0 \in 0..3}

DecisionInit ==
    /\ objects = EmptyMap
    /\ nextObjID = 1
    /\ settings \in DecisionSettings
    /\ vocabulary = NewVocabulary
    /\ objectsDescriptors = EmptyMap
    /\ dataRange = EmptyMap
    /\ lastCall = Call("new", <<>>, <<>>)
    /\ searchLog = <<>>
    /\ vocTrace = NoTrace
    /\ builtInverted = {}
    /\ limitCall = NoLimitCall
    /\ hom = NoHomography

\* one pass of the PROCESS RESULTS loop up to the decision, on the control
\* thread and in a SearchThread
DoMatchRow(nn) ==
    /\ lastCall' = Call("matched", <<nn>>,
                        [k       |-> SearchK(settings),
                         threadK |-> ThreadK(settings),
                         control |-> Matched(settings, nn),
                         worker  |-> ThreadMatched(settings, nn)])
    /\ UNCHANGED <<objects, nextObjID, settings, vocabulary, objectsDescriptors,
                   dataRange, searchLog, vocTrace, builtInverted, limitCall, hom>>

DecisionNext == \E nn \in ResultRows(SearchK(settings)) : DoMatchRow(nn)

DecisionSpec == DecisionInit /\ [][DecisionNext]_vars

\* C29: the decision is d0 <= ratio * d1 with the NNDR test alone, that and
\* d0 <= minDistance with both tests, d0 <= minDistance with the minimum
\* distance alone and always a match with neither; k is 2 with the NNDR
\* test and 1 without; the worker decides as the control thread does
C29_DecisionTable ==
    lastCall.op = "matched" =>
        LET nn    == lastCall.args[1]
            d0    == nn[1][2]
            nndr  == 10 * d0 <= settings.nndrRatio * nn[2][2]
            near  == d0 <= settings.minDistance
            table == IF settings.nndrRatioUsed
                     THEN (IF settings.minDistanceUsed THEN nndr /\ near ELSE nndr)
                     ELSE (IF settings.minDistanceUsed THEN near ELSE TRUE)
        IN  /\ lastCall.ret.control = table
            /\ lastCall.ret.worker = table
            /\ lastCall.ret.k = (IF settings.nndrRatioUsed THEN 2 ELSE 1)
            /\ lastCall.ret.threadK = lastCall.ret.k
            /\ Len(nn) = lastCall.ret.k

\* C29: a row that passes the minimum distance and fails the NNDR test was
\* decided with both tests in use
C29_Witness ==
    /\ lastCall.op = "matched"
    /\ settings.nndrRatioUsed /\ settings.minDistanceUsed
    /\ lastCall.args[1][1][2] <= settings.minDistance
    /\ 10 * lastCall.args[1][1][2] > settings.nndrRatio * lastCall.args[1][2][2]
    /\ ~lastCall.ret.control
    /\ ~lastCall.ret.worker

----------------------------------------------------------------------------
(* The linear scan of the staging block alone, for binary descriptors.     *)

\* binary extractors and the values of Feature2D_ORB_WTA_K
ScanSettings ==
    {[DefaultSettings EXCEPT !.descriptorType = t[1], !.orbWtaK = t[2]] :
        t \in {"ORB", "BRIEF", "BRISK"} \X {2, 3, 4}}

ScanInit ==
    /\ objects = EmptyMap
    /\ nextObjID = 1
    /\ settings \in ScanSettings
    /\ vocabulary = NewVocabulary
    /\ objectsDescriptors = EmptyMap
    /\ dataRange = EmptyMap
    /\ lastCall = Call("new", <<>>, <<>>)
    /\ searchLog = <<>>
    /\ vocTrace = NoTrace
    /\ builtInverted = {}
    /\ limitCall = NoLimitCall
    /\ hom = NoHomography

\* the batchDistance call of incremental addWords for the CV_8U row q
\* against the staged rows
DoStagingScan(q, staged, tieLow) ==
    /\ lastCall' = Call("batchDistance", <<q, staged>>,
                        [normType |-> NormType(settings),
                         nearest  |-> KnnStaging(settings, CV_8U, q, staged,
                                                 IF Len(staged) >= 2 THEN 2 ELSE 1,
                                                 tieLow)])
    /\ UNCHANGED <<objects, nextObjID, settings, vocabulary, objectsDescriptors,
                   dataRange, searchLog, vocTrace, builtInverted, limitCall, hom>>

ScanNext ==
    \E q \in DescValues, staged \in DescRows, tieLow \in BOOLEAN :
        DoStagingScan(q, staged, tieLow)

ScanSpec == ScanInit /\ [][ScanNext]_vars

\* C30: the scan of the staging block measures binary rows with Hamming-2
\* exactly when the extractor is ORB and WTA_K is 3 or 4, and with plain
\* Hamming otherwise
C30_Hamming2OnlyForOrbWta34 ==
    lastCall.op = "batchDistance" =>
        LET q      == lastCall.args[1]
            staged == lastCall.args[2]
            orb34  == settings.descriptorType = "ORB" /\ settings.orbWtaK \in {3, 4}
        IN  /\ (lastCall.ret.normType = NORM_HAMMING2) = orb34
            /\ \A n \in 1..Len(lastCall.ret.nearest) :
                  lastCall.ret.nearest[n][2] =
                      IF orb34 THEN Hamming2(q, staged[lastCall.ret.nearest[n][1] + 1])
                      ELSE Hamming(q, staged[lastCall.ret.nearest[n][1] + 1])

----------------------------------------------------------------------------
(* Properties of the update() calls of updateVocabulary, checked under     *)
(* BuildSpec.                                                              *)

\* the places the latest updateVocabulary could call update() at
UpdateSites == IF lastCall.op = "updateVocabulary" THEN lastCall.ret ELSE <<>>

\* the word-ids allocated from the last update() before site n up to it
AllocatedSinceUpdate(n) ==
    LET from == Max({0} \cup {m \in 1..(n - 1) : UpdateSites[m].updated}) + 1
    IN  SumSeq([m \in 1..(n - from + 1) |-> UpdateSites[from + m - 1].allocated])

\* C23: in an incremental inverted updateVocabulary the counter compared
\* with vocabularyUpdateMinWords is the number of word-ids allocated since
\* the last update(), update() is called after an object exactly when that
\* number has reached the threshold, and the final update() runs whenever
\* the staging block is not empty
C23_CounterCountsNewWords ==
    (settings.invertedSearch /\ settings.vocabularyIncremental) =>
        \A n \in 1..Len(UpdateSites) :
            IF UpdateSites[n].after # 0
            THEN /\ UpdateSites[n].counter = AllocatedSinceUpdate(n)
                 /\ UpdateSites[n].updated =
                        (AllocatedSinceUpdate(n) >= settings.vocabularyUpdateMinWords)
            ELSE UpdateSites[n].staged > 0 => UpdateSites[n].updated

\* C25: the column count and type check of update() holds at every
\* update() call that finds rows staged
C25_UpdateCheckHolds ==
    \A n \in 1..Len(UpdateSites) :
        (UpdateSites[n].updated /\ UpdateSites[n].staged > 0) => UpdateSites[n].check

----------------------------------------------------------------------------
(* Matching over a library loaded with its descriptors: vocabulary builds, *)
(* changes of the threads setting and detections.                          *)

\* libraries of two signatures: equal descriptors, a descriptor held twice,
\* an object without descriptors, objects of different sizes
MatchLibraries ==
    {[id \in {1, 2} |-> ObjSignature(<<>>, IF Len(d[id]) = 0 THEN EmptyMat
                                           ELSE Mat(d[id], 128, CV_32F))] :
        d \in {<<<<0, 7>>, <<0, 7>>>>,
               <<<<0, 7, 7>>, <<7>>>>,
               <<<<0, 7>>, <<>>>>,
               <<<<3>>, <<0, 7>>>>}}

MatchSettings ==
    {[DefaultSettings EXCEPT !.invertedSearch = u[1], !.vocabularyIncremental = u[2],
                             !.nndrRatioUsed = u[3], !.threads = u[4]] :
        u \in BOOLEAN \X BOOLEAN \X BOOLEAN \X {1, 2}}

\* the detect calls of this specification: <<scene, oracle>>
MatchInputs ==
    {<<Scene(rows), Oracle(tieLow, <<<<0, 0>>, <<0, 0>>>>, 1, "inside")>> :
        rows \in {<<0>>, <<1, 7>>, <<7, 3>>}, tieLow \in BOOLEAN}

MatchInit ==
    /\ objects \in MatchLibraries
    /\ nextObjID = 3
    /\ settings \in MatchSettings
    /\ vocabulary = NewVocabulary
    /\ objectsDescriptors = EmptyMap
    /\ dataRange = EmptyMap
    /\ lastCall = Call("new", <<>>, <<>>)
    /\ searchLog = <<>>
    /\ vocTrace = NoTrace
    /\ builtInverted = {}
    /\ limitCall = NoLimitCall
    /\ hom = NoHomography

MatchNext ==
    \/ \E tieLow \in BOOLEAN : DoUpdateVocabulary(tieLow)
    \/ \E d \in MatchInputs : DoDetect(d[1], d[2])
    \/ \E n \in {0, 1, 2} : DoSet("threads", n)

MatchSpec == MatchInit /\ [][MatchNext]_vars

----------------------------------------------------------------------------
(* Properties of matching, checked under MatchSpec. *)

\* the latest call was a detect that entered COMPARE: it succeeded on a
\* scene with keypoints
Compared ==
    /\ lastCall.op = "detect"
    /\ lastCall.ret.success
    /\ lastCall.args[1].keypoints # 0

\* the store holds one matrix per object
PerObjectStore == DOMAIN objectsDescriptors = DOMAIN objects

\* the store holds the concatenated matrix and dataRange its layout
SingleMatrixStore == DOMAIN objectsDescriptors = {0} /\ DOMAIN dataRange # {}

\* two match maps hold the same correspondences, each as many times
SameCorrespondences(m1, m2) ==
    \A p \in {m1[k] : k \in 1..Len(m1)} \cup {m2[k] : k \in 1..Len(m2)} :
        MMCountKV(m1, p[1], p[2]) = MMCountKV(m2, p[1], p[2])

\* what detect matches for the same library, scene and settings when the
\* store is built and searched with one thread
SingleMatrixMatches(scene, oracle) ==
    DetectOp(UpdateVocabularyOp([State EXCEPT !.settings.threads = 1], oracle.tieLow),
             scene, oracle).info.matches

\* C21: in non-inverted mode the search workers (threads # 1) give every
\* object the correspondences the single-matrix path (threads = 1) gives
\* it, each as many times: a worker stores the scene index of a matched
\* row and nothing else
C21_ThreadCountIrrelevant ==
    (Compared /\ ~settings.invertedSearch /\ settings.threads # 1 /\ PerObjectStore) =>
        \A o \in DOMAIN objects :
            SameCorrespondences(lastCall.ret.info.matches[o],
                                SingleMatrixMatches(lastCall.args[1], lastCall.args[2])[o])

\* C22: the layout of the store agrees with the path detect takes. A
\* detect that compares in non-inverted mode finds, with threads = 1, every
\* row it searched in dataRange, and with threads # 1 only library objects
\* as keys of its match map and as candidates of the homography stage;
\* also when threads changed after updateVocabulary
C22_StoreAgreesWithPath ==
    (Compared /\ ~settings.invertedSearch) =>
        IF settings.threads = 1
        THEN "dataRangeEnd" \notin lastCall.ret.fault
        ELSE /\ DOMAIN lastCall.ret.info.matches \subseteq DOMAIN objects
             /\ "nullObject" \notin lastCall.ret.fault

\* the descriptor rows the latest detect searched the vocabulary for: the
\* scene's in inverted mode, else those of the store (of its first matrix
\* with one thread)
QueryRows ==
    IF settings.invertedSearch THEN lastCall.args[1].descriptors.rows
    ELSE IF settings.threads = 1
    THEN objectsDescriptors[Min(DOMAIN objectsDescriptors)].rows
    ELSE LET keys == SortedSeq(DOMAIN objectsDescriptors)
             RECURSIVE Rows(_)
             Rows(n) == IF n > Len(keys) THEN <<>>
                        ELSE objectsDescriptors[keys[n]].rows \o Rows(n + 1)
         IN  Rows(1)

\* the distance from row q to the nearest indexed word
NearestDistance(type, q) ==
    Min({FlannDistance(type, q, vocabulary.indexedDescriptors.rows[w]) :
            w \in 1..MatRows(vocabulary.indexedDescriptors)})

\* C26: after matching, minMatchedDistance and maxMatchedDistance are the
\* least and the greatest nearest-neighbour distance d0 over the query rows
\* of the call, and -1 only when there was no query row; with search
\* workers too, an object without descriptors included
C26_MinMaxOverQueryRows ==
    Compared =>
        LET info == lastCall.ret.info
            type == lastCall.args[1].descriptors.type
            d0   == {NearestDistance(type, QueryRows[n]) : n \in 1..Len(QueryRows)}
        IN  IF Len(QueryRows) = 0
            THEN info.minMatchedDistance = -1 /\ info.maxMatchedDistance = -1
            ELSE /\ info.minMatchedDistance # -1
                 /\ info.maxMatchedDistance # -1
                 /\ ~MatEmpty(vocabulary.indexedDescriptors) =>
                       /\ info.minMatchedDistance = Min(d0)
                       /\ info.maxMatchedDistance = Max(d0)

\* the result rows of the search the latest detect made in inverted mode:
\* per scene row, its k <<word, distance>> pairs
InvertedResults ==
    Search(vocabulary, lastCall.args[1].descriptors, SearchK(settings),
           lastCall.args[2].tieLow, lastCall.args[2].garbage)

\* the correspondences of match map m that scene row i (from 0) added
AddedByRow(m, i) == {k \in 1..Len(m) : m[k][2] = i}

\* C27: in inverted mode a matched scene row i with nearest word w adds a
\* correspondence to object o if and only if wordToObjects holds (w, o)
\* exactly once, and then exactly the pair (keypoint of w in o.words, i);
\* a word the object holds several times adds nothing, so a scene row adds
\* at most one correspondence per object
C27_InvertedUniqueWordsOnly ==
    (Compared /\ settings.invertedSearch) =>
        /\ lastCall.ret.fault = {}
        /\ DOMAIN lastCall.ret.info.matches = DOMAIN objects
        /\ \A o \in DOMAIN objects :
              LET m == lastCall.ret.info.matches[o]
              IN  /\ \A k \in 1..Len(m) : m[k][2] \in 0..(Len(InvertedResults) - 1)
                  /\ \A i \in 0..(Len(InvertedResults) - 1) :
                        LET nn == InvertedResults[i + 1]
                            w  == nn[1][1]
                        IN  IF /\ Matched(settings, nn)
                               /\ MMCountKV(vocabulary.wordToObjects, w, o) = 1
                            THEN /\ Cardinality(AddedByRow(m, i)) = 1
                                 /\ \A k \in AddedByRow(m, i) :
                                       m[k][1] = MMValue(objects[o].words, w)
                            ELSE AddedByRow(m, i) = {}

\* C27 witness: a matched scene row whose word one object holds twice and
\* another once: the first got nothing, the second one correspondence
C27_Witness ==
    /\ Compared
    /\ settings.invertedSearch
    /\ \E i \in 0..(Len(InvertedResults) - 1), o1, o2 \in DOMAIN objects :
          /\ Matched(settings, InvertedResults[i + 1])
          /\ MMCountKV(vocabulary.wordToObjects, InvertedResults[i + 1][1][1], o1) = 2
          /\ MMCountKV(vocabulary.wordToObjects, InvertedResults[i + 1][1][1], o2) = 1
          /\ AddedByRow(lastCall.ret.info.matches[o1], i) = {}
          /\ Cardinality(AddedByRow(lastCall.ret.info.matches[o2], i)) = 1

\* the row of the concatenated matrix the first descriptor of object o is
\* copied to: the rows of the objects before it, in id order
FirstRow(o) ==
    LET before == SortedSeq({id \in DOMAIN objects : id < o})
    IN  SumSeq([n \in 1..Len(before) |-> MatRows(objects[before[n]].descriptors)])

\* the rows of the concatenated matrix that hold the descriptors of o
RowsOf(o) == FirstRow(o)..(FirstRow(o) + MatRows(objects[o].descriptors) - 1)

\* the scene's word -> keypoint map the latest detect built, and the result
\* rows of its search of the concatenated matrix
SceneWords == SceneIndex(State, lastCall.args[1], lastCall.args[2]).words

SingleMatrixResults ==
    Search(vocabulary, objectsDescriptors[0], SearchK(settings),
           lastCall.args[2].tieLow, lastCall.args[2].garbage)

\* C28: with the concatenated matrix, in non-inverted mode, lowerBound(r)
\* in dataRange gives for every row r the object whose descriptors were
\* copied to r, and the key before it, plus one, that object's first row f,
\* so that r - f is the object's local index of that descriptor; detect
\* records a matched row under that index in that object's match map only
C28_LowerBoundFindsOwner ==
    (SingleMatrixStore /\ ~settings.invertedSearch) =>
        /\ \A o \in DOMAIN objects : \A r \in RowsOf(o) :
              LET keys  == {k \in DOMAIN dataRange : k >= r}
                  below == {k \in DOMAIN dataRange : k < r}
                  f     == IF below = {} THEN 0 ELSE Max(below) + 1
              IN  /\ keys # {}
                  /\ dataRange[Min(keys)] = o
                  /\ f = FirstRow(o)
                  /\ r - f \in 0..(MatRows(objects[o].descriptors) - 1)
                  /\ objectsDescriptors[0].rows[r + 1] =
                         objects[o].descriptors.rows[r - f + 1]
        /\ MatRows(objectsDescriptors[0]) =
               SumSeq([n \in 1..Len(LibraryIds) |->
                          MatRows(objects[LibraryIds[n]].descriptors)])
        /\ (Compared /\ settings.threads = 1) =>
              /\ lastCall.ret.fault = {}
              /\ \A o \in DOMAIN objects :
                    LET m == lastCall.ret.info.matches[o]
                    IN  /\ \A k \in 1..Len(m) :
                              m[k][1] \in 0..(MatRows(objects[o].descriptors) - 1)
                        /\ \A j \in 0..(MatRows(objects[o].descriptors) - 1) :
                              LET nn == SingleMatrixResults[FirstRow(o) + j + 1]
                              IN  IF /\ Matched(settings, nn)
                                     /\ MMCount(SceneWords, nn[1][1]) = 1
                                  THEN MMValues(m, j) = <<MMValue(SceneWords, nn[1][1])>>
                                  ELSE MMCount(m, j) = 0

\* C28 witness: a detect on the concatenated matrix matched the last row
\* of the second object, which has fewer rows than the matrix, to a scene
\* keypoint that no row of the first object was matched to
C28_Witness ==
    /\ SingleMatrixStore
    /\ ~settings.invertedSearch
    /\ Compared
    /\ settings.threads = 1
    /\ MatRows(objects[1].descriptors) > 0
    /\ \E kp \in 0..1 :
          /\ MMCountKV(lastCall.ret.info.matches[2],
                       MatRows(objects[2].descriptors) - 1, kp) = 1
          /\ \A j \in 0..(MatRows(objects[1].descriptors) - 1) :
                MMCountKV(lastCall.ret.info.matches[1], j, kp) = 0

====
